---------------------------- MODULE Spec2Model ----------------------------
(***************************************************************************)
(* A model of the audio-to-subs core: the window planning and chunk        *)
(* cutting of src/audio_splitter.py, the stitching loop of                 *)
(* Pipeline._transcribe_audio_segments, the text wrapping of segment_text  *)
(* and the validation / rendering / writing of SubtitleGenerator.          *)
(*                                                                         *)
(* Each component has its own specification (SpecSplit, SpecStitch,        *)
(* SpecWrap, SpecGenerate) over its own group of variables; the variables  *)
(* of the other components stay at their initial values.                   *)
(*                                                                         *)
(* Splitter times are whole seconds; cue times are whole ticks, a second   *)
(* being TicksPerSecond ticks.  Strings are sequences of one-character     *)
(* strings.                                                                *)
(***************************************************************************)
EXTENDS Integers, Sequences, FiniteSets, TLC

VARIABLES
    \* ---- split_audio / needs_splitting (src/audio_splitter.py)
    duration,         \* value returned by get_audio_duration
    max_length,       \* the max_length parameter
    split_pc,         \* position inside split_audio
    start_time,       \* loop variable of the planning loop
    segments_bounds,  \* list of (start, end) windows
    split_segments,   \* the list `segments` that split_audio returns
    chunk_files,      \* segment_NNN.wav files that exist in output_dir
    split_error,      \* exception raised by split_audio, "none" if none
    needs_split,      \* "true"/"false" from needs_splitting, "unset" before
    \* ---- Pipeline._transcribe_audio_segments (src/pipeline.py)
    n_audio_segments, \* len(audio_segments)
    stitch_idx,       \* number of chunks merged so far
    responses,        \* what the transcription client returned, per chunk
    all_segments,     \* the merged cue list
    time_offset,      \* the running offset
    stitch_pc,        \* "loop", "returned" or "raised"
    \* ---- segment_text (src/subtitle_generator.py)
    wrap_text,        \* the text argument
    max_chars,        \* the max_chars argument
    wrap_lines,       \* the returned list of lines
    wrap_called,      \* TRUE once segment_text has returned
    \* ---- SubtitleGenerator.generate (src/subtitle_generator.py)
    gen_segments,     \* the segments argument (list of dicts)
    output_format,    \* the output_format argument
    gen_pc,           \* position inside generate / generate_<fmt>
    gen_i,            \* index of the validation loop
    validated,        \* number of _validate_segment calls made
    out_lines,        \* the srt_lines / vtt_lines / sbv_lines list
    rendered,         \* TRUE once the content list has been built
    out_file,         \* content of the file at output_path, Absent if none
    old_file,         \* content of that file when generate was called
    gen_error,        \* the SubtitleFormatError raised, NoError if none
    \* ---- format_timestamp_srt / _vtt / _sbv (src/subtitle_generator.py)
    stamp_seconds,    \* the seconds argument, in ticks
    stamp_format,     \* which of the three formatters is called
    stamp_result,     \* <<the returned string and its fields>>, <<>> before
    \* ---- Pipeline.process_video (src/pipeline.py)
    pv_pc,            \* position inside process_video
    pv_audio_path,    \* the local audio_path: <<>> for None, else <<path>>
    pv_audio_segments,\* the local audio_segments
    pv_audio_on_disk, \* TRUE while audio_<stem>.wav exists in temp_dir
    pv_audio_created, \* TRUE once this run has created audio_<stem>.wav
    pv_transcribed,   \* number of chunks transcribed so far
    pv_cleanup_idx,   \* index of the cleanup loop over audio_segments
    pv_remove_failed, \* paths whose os.remove raised OSError
    pv_result,        \* "running", "returned" or the exception raised
    pv_log,           \* the stage calls process_video has made, in order
    \* ---- Pipeline.process_batch (src/pipeline.py)
    pb_jobs,          \* the jobs argument (list of dicts)
    pb_pc,            \* position inside process_batch
    pb_idx,           \* idx of the loop over jobs, from 1
    pb_calls,         \* the calls of process_video made, with their outcome
    pb_results,       \* the dict `results`, as a set of (key, value) pairs
    pb_outcome,       \* "running", "returned" or the exception raised
    \* ---- two process_video runs that share temp_dir (src/pipeline.py)
    cr_stem,          \* per run: the stem of its video file
    cr_long,          \* per run: whether its audio needs splitting
    cr_pc,            \* per run: position inside process_video
    cr_audio_path,    \* per run: the local audio_path, <<>> for None
    cr_segments,      \* per run: the local audio_segments
    cr_cut,           \* per run: chunks split_audio has written so far
    cr_sent,          \* per run: chunks handed to the transcriber so far
    cr_cleanup_idx,   \* per run: index of the cleanup loop
    cr_fs,            \* temp_dir: path -> run whose data the file holds
    cr_events         \* what each run read, overwrote and deleted

splitVars  == <<duration, max_length, split_pc, start_time, segments_bounds,
                split_segments, chunk_files, split_error, needs_split>>
stitchVars == <<n_audio_segments, stitch_idx, responses, all_segments,
                time_offset, stitch_pc>>
wrapVars   == <<wrap_text, max_chars, wrap_lines, wrap_called>>
genVars    == <<gen_segments, output_format, gen_pc, gen_i, validated,
                out_lines, rendered, out_file, old_file, gen_error>>
stampVars  == <<stamp_seconds, stamp_format, stamp_result>>
pipeVars   == <<pv_pc, pv_audio_path, pv_audio_segments, pv_audio_on_disk,
                pv_audio_created, pv_transcribed, pv_cleanup_idx,
                pv_remove_failed, pv_result, pv_log>>
batchVars  == <<pb_jobs, pb_pc, pb_idx, pb_calls, pb_results, pb_outcome>>
concVars   == <<cr_stem, cr_long, cr_pc, cr_audio_path, cr_segments, cr_cut,
                cr_sent, cr_cleanup_idx, cr_fs, cr_events>>
vars       == <<splitVars, stitchVars, wrapVars, genVars, stampVars,
                pipeVars, batchVars, concVars>>

\* ------------------------------------------------------------ bounds
MaxDuration == 8     \* durations range over -1 .. MaxDuration seconds
MaxLength   == 4     \* max_length ranges over 1 .. MaxLength seconds
MaxChunks   == 3     \* audio_segments holds 1 .. MaxChunks paths
MaxCues     == 3     \* cues returned by the transcriber over one run
MaxTextLen  == 5     \* segment_text is applied to texts of 0 .. MaxTextLen chars
MaxWidth    == 3     \* max_chars ranges over 1 .. MaxWidth
MaxGenCues  == 2     \* generate is given 0 .. MaxGenCues segments

\* ------------------------------------------------- program constants
OVERLAP == 2
MAX_AUDIO_LENGTH == 900
DEFAULT_MAX_CHARS == 42

\* Resolution of cue times: a float second is TicksPerSecond ticks.
TicksPerSecond == 10000

\* ------------------------------------------------------------ helpers
\* Paths of the audio files: the extracted audio and segment_<idx>.wav.
AudioPath == [name |-> "audio", idx |-> 0]
SegmentPath(idx) == [name |-> "segment", idx |-> idx]

Min(a, b) == IF a <= b THEN a ELSE b
Last(s) == s[Len(s)]

\* c * n: the string of n characters c.
Repeat(c, n) == [i \in 1 .. n |-> c]

\* Idle values of each component, used by the other specifications.
SplitIdle ==
    /\ duration = 0 /\ max_length = 1 /\ split_pc = "idle" /\ start_time = 0
    /\ segments_bounds = <<>> /\ split_segments = <<>> /\ chunk_files = {}
    /\ split_error = "none" /\ needs_split = "unset"
StitchIdle ==
    /\ n_audio_segments = 0 /\ stitch_idx = 0 /\ responses = <<>>
    /\ all_segments = <<>> /\ time_offset = 0 /\ stitch_pc = "idle"
WrapIdle ==
    /\ wrap_text = <<>> /\ max_chars = 1 /\ wrap_lines = <<>>
    /\ wrap_called = FALSE
\* A file that does not exist, and no exception.
Absent  == [exists |-> FALSE, content |-> <<>>]
NoError == [type |-> "none", msg |-> "none", fields |-> {}, values |-> <<>>]

GenIdle ==
    /\ gen_segments = <<>> /\ output_format = "srt" /\ gen_pc = "idle"
    /\ gen_i = 0 /\ validated = 0 /\ out_lines = <<>> /\ rendered = FALSE
    /\ out_file = Absent /\ old_file = Absent
    /\ gen_error = NoError

StampIdle ==
    /\ stamp_seconds = 0 /\ stamp_format = "srt" /\ stamp_result = <<>>

PipeIdle ==
    /\ pv_pc = "idle" /\ pv_audio_path = <<>> /\ pv_audio_segments = <<>>
    /\ pv_audio_on_disk = FALSE /\ pv_audio_created = FALSE
    /\ pv_transcribed = 0 /\ pv_cleanup_idx = 0 /\ pv_remove_failed = {}
    /\ pv_result = "none" /\ pv_log = <<>>

BatchIdle ==
    /\ pb_jobs = <<>> /\ pb_pc = "idle" /\ pb_idx = 0 /\ pb_calls = <<>>
    /\ pb_results = {} /\ pb_outcome = "none"

ConcIdle ==
    /\ cr_stem = <<>> /\ cr_long = <<>> /\ cr_pc = <<>>
    /\ cr_audio_path = <<>> /\ cr_segments = <<>> /\ cr_cut = <<>>
    /\ cr_sent = <<>> /\ cr_cleanup_idx = <<>> /\ cr_fs = <<>>
    /\ cr_events = {}

(***************************************************************************)
(* split_audio and needs_splitting                                         *)
(***************************************************************************)

\* The loop that plans more windows than any terminating plan of the
\* modelled durations has is cut off here.
MaxWindows == MaxDuration + 1

InitSplit ==
    /\ duration \in -1 .. MaxDuration
    /\ max_length \in 1 .. MaxLength
    /\ split_pc = "start"
    /\ start_time = 0
    /\ segments_bounds = <<>>
    /\ split_segments = <<>>
    /\ chunk_files = {}
    /\ split_error = "none"
    /\ needs_split = "unset"
    /\ StitchIdle /\ WrapIdle /\ GenIdle /\ StampIdle /\ PipeIdle
    /\ BatchIdle /\ ConcIdle

\* needs_splitting: duration > max_length
NeedsSplittingResult(d, l) == d > l

NeedsSplitting ==
    /\ needs_split = "unset"
    /\ needs_split' = IF NeedsSplittingResult(duration, max_length)
                      THEN "true" ELSE "false"
    /\ UNCHANGED <<duration, max_length, split_pc, start_time,
                   segments_bounds, split_segments, chunk_files, split_error>>
    /\ UNCHANGED <<stitchVars, wrapVars, genVars, stampVars, pipeVars,
                   batchVars, concVars>>

\* split_audio, lines 71-74: the early return for short audio.
NoSplitNeededMutant(d, l) == d < l
NoSplitNeeded(d, l) == d <= l

\* get_audio_duration raises AudioSplitterError; the except clause of
\* split_audio wraps it in another AudioSplitterError.
SplitProbeFails ==
    /\ split_pc = "start"
    /\ split_pc' = "raised"
    /\ split_error' = "AudioSplitterError"
    /\ UNCHANGED <<duration, max_length, start_time, segments_bounds,
                   split_segments, chunk_files, needs_split>>
    /\ UNCHANGED <<stitchVars, wrapVars, genVars, stampVars, pipeVars,
                   batchVars, concVars>>

SplitAudioBegin ==
    /\ split_pc = "start"
    /\ IF NoSplitNeeded(duration, max_length)
       THEN /\ split_segments' = <<AudioPath>>
            /\ split_pc' = "returned"
       ELSE /\ split_segments' = <<>>
            /\ split_pc' = "plan"
    /\ start_time' = 0
    /\ UNCHANGED <<duration, max_length, segments_bounds, chunk_files,
                   split_error, needs_split>>
    /\ UNCHANGED <<stitchVars, wrapVars, genVars, stampVars, pipeVars,
                   batchVars, concVars>>

\* One window of the planning loop, lines 83-84.
WindowEndMutant(s, l, d) == s + l
WindowEnd(s, l, d) == Min(s + l, d)

\* Line 87.
NextStartMutant(e) == e
NextStartOneBack(e) == e - 1
NextStart(e) == e - OVERLAP

\* One evaluation of the while condition and, if it holds, of the body.
PlanStep ==
    /\ split_pc = "plan"
    /\ Len(segments_bounds) < MaxWindows
    /\ IF start_time < duration
       THEN LET end_time == WindowEnd(start_time, max_length, duration) IN
            /\ segments_bounds' =
                   Append(segments_bounds, <<start_time, end_time>>)
            /\ IF end_time >= duration
               THEN /\ split_pc' = "cut"
                    /\ start_time' = start_time
               ELSE /\ split_pc' = "plan"
                    /\ start_time' = NextStart(end_time)
       ELSE /\ split_pc' = "cut"
            /\ UNCHANGED <<segments_bounds, start_time>>
    /\ UNCHANGED <<duration, max_length, split_segments, chunk_files,
                   split_error, needs_split>>
    /\ UNCHANGED <<stitchVars, wrapVars, genVars, stampVars, pipeVars,
                   batchVars, concVars>>

\* One iteration of the cutting loop, lines 92-131, ffmpeg succeeding:
\* segment_<idx>.wav is written and appended to `segments`.
CutStep ==
    /\ split_pc = "cut"
    /\ Len(split_segments) < Len(segments_bounds)
    /\ LET idx == Len(split_segments) + 1 IN
       /\ chunk_files' = chunk_files \cup {SegmentPath(idx)}
       /\ split_segments' = Append(split_segments, SegmentPath(idx))
    /\ UNCHANGED <<duration, max_length, split_pc, start_time,
                   segments_bounds, split_error, needs_split>>
    /\ UNCHANGED <<stitchVars, wrapVars, genVars, stampVars, pipeVars,
                   batchVars, concVars>>

\* ffmpeg returns non-zero for the chunk being cut: AudioSplitterError.
\* The chunk files cut so far stay on disk.
CutFails ==
    /\ split_pc = "cut"
    /\ Len(split_segments) < Len(segments_bounds)
    /\ split_pc' = "raised"
    /\ split_error' = "AudioSplitterError"
    /\ UNCHANGED <<duration, max_length, start_time, segments_bounds,
                   split_segments, chunk_files, needs_split>>
    /\ UNCHANGED <<stitchVars, wrapVars, genVars, stampVars, pipeVars,
                   batchVars, concVars>>

\* Line 133: return segments.
SplitReturn ==
    /\ split_pc = "cut"
    /\ Len(split_segments) = Len(segments_bounds)
    /\ split_pc' = "returned"
    /\ UNCHANGED <<duration, max_length, start_time, segments_bounds,
                   split_segments, chunk_files, split_error, needs_split>>
    /\ UNCHANGED <<stitchVars, wrapVars, genVars, stampVars, pipeVars,
                   batchVars, concVars>>

NextSplit ==
    \/ NeedsSplitting
    \/ SplitProbeFails
    \/ SplitAudioBegin
    \/ PlanStep
    \/ CutStep
    \/ CutFails
    \/ SplitReturn

SpecSplit == InitSplit /\ [][NextSplit]_vars

(***************************************************************************)
(* Claims about split_audio and needs_splitting (under SpecSplit)          *)
(***************************************************************************)

\* The planning loop has been left (normally) with its list of windows.
PlanComplete ==
    \/ split_pc \in {"cut", "returned"}
    \/ split_pc = "raised" /\ segments_bounds # <<>>

WStart(i) == segments_bounds[i][1]
WEnd(i)   == segments_bounds[i][2]
NWindows  == Len(segments_bounds)

C7_SingleWindow ==
    /\ (0 <= duration /\ duration <= max_length) =>
           /\ needs_split # "true"
           /\ split_pc \notin {"plan", "cut"}
           /\ segments_bounds = <<>> /\ chunk_files = {}
           /\ split_pc = "returned" => split_segments = <<AudioPath>>
    /\ duration > max_length =>
           /\ needs_split # "false"
           /\ split_pc = "returned" =>
                  /\ Len(split_segments) >= 2
                  /\ \A i \in 1 .. Len(split_segments) :
                         split_segments[i] = SegmentPath(i)

C7_Witness ==
    /\ duration = max_length
    /\ split_pc = "returned"
    /\ needs_split = "false"

\* C8: planning with a violated precondition (duration < 0, or an overlap
\* that is not strictly between 0 and max_length) raises an error and
\* emits no window.
C8_PreconditionRejected ==
    (/\ split_pc # "start"
     /\ \/ duration < 0
        \/ ~(0 < OVERLAP /\ OVERLAP < max_length))
    => /\ split_pc = "raised"
       /\ segments_bounds = <<>>
       /\ split_segments = <<>>

\* ceil(a / b) for b > 0.
CeilDiv(a, b) == (a + b - 1) \div b

C30_PlanningTerminates ==
    (duration >= 0 /\ max_length >= 1) =>
        /\ \A k \in 1 .. Len(segments_bounds) - 1 :
               segments_bounds[k + 1][1] > segments_bounds[k][1]
        /\ (split_pc = "plan" /\ segments_bounds # <<>>) =>
               start_time > Last(segments_bounds)[1]

(***************************************************************************)
(* Pipeline._transcribe_audio_segments: transcribe each chunk in order and *)
(* merge the cues, shifting them by the running offset.                    *)
(***************************************************************************)

\* Chunk-local times and texts the transcription client may return.  The
\* client copies start / end / text from the service's response without
\* checking them, so end < start is possible.
CueStarts == {0, 2}
CueEnds   == {0, 2, 3}
CueTexts  == {"a", "b"}
Cues == [start : CueStarts, end : CueEnds, text : CueTexts]

\* All lists of at most n elements of S.
RECURSIVE ListsUpTo(_, _)
ListsUpTo(S, n) ==
    IF n = 0 THEN {<<>>}
    ELSE LET shorter == ListsUpTo(S, n - 1) IN
         shorter \cup {Append(l, x) : l \in {m \in shorter : Len(m) = n - 1},
                                      x \in S}

InitStitch ==
    /\ n_audio_segments \in 1 .. MaxChunks
    /\ stitch_idx = 0
    /\ responses = <<>>
    /\ all_segments = <<>>
    /\ time_offset = 0
    /\ stitch_pc = "loop"
    /\ SplitIdle /\ WrapIdle /\ GenIdle /\ StampIdle /\ PipeIdle
    /\ BatchIdle /\ ConcIdle

\* Lines 245-246: segment["start"] += time_offset; segment["end"] += ...
ShiftCueMutant(c, off) ==
    [start |-> c.start, end |-> c.end + off, text |-> c.text]
ShiftCue(c, off) ==
    [start |-> c.start + off, end |-> c.end + off, text |-> c.text]

\* Lines 250-251.  `segments` holds the dicts that the loop above has
\* already shifted in place, so segments[-1]["end"] is the shifted end.
NewOffsetMutant(segments, off) ==
    IF segments # <<>> THEN Last(segments).end - off ELSE off
NewOffset(segments, off) ==
    IF segments # <<>> THEN Last(segments).end ELSE off

\* One iteration of the for loop, lines 232-251: the client returns
\* `segments` for the next chunk, they are shifted and appended.
TranscribeAndMerge ==
    /\ stitch_pc = "loop"
    /\ stitch_idx < n_audio_segments
    /\ \E segments \in ListsUpTo(Cues, MaxCues - Len(all_segments)) :
           LET shifted == [k \in 1 .. Len(segments) |->
                               ShiftCue(segments[k], time_offset)] IN
           /\ responses' = Append(responses, segments)
           /\ all_segments' = all_segments \o shifted
           /\ time_offset' = NewOffset(shifted, time_offset)
    /\ stitch_idx' = stitch_idx + 1
    /\ UNCHANGED <<n_audio_segments, stitch_pc>>
    /\ UNCHANGED <<splitVars, wrapVars, genVars, stampVars, pipeVars,
                   batchVars, concVars>>

\* The client raises (TranscriptionError, AudioFileError, ...): lines
\* 254-257 turn it into PipelineError and the merged list is lost.
TranscribeFails ==
    /\ stitch_pc = "loop"
    /\ stitch_idx < n_audio_segments
    /\ stitch_pc' = "raised"
    /\ UNCHANGED <<n_audio_segments, stitch_idx, responses, all_segments,
                   time_offset>>
    /\ UNCHANGED <<splitVars, wrapVars, genVars, stampVars, pipeVars,
                   batchVars, concVars>>

\* Line 253: return all_segments.
StitchReturn ==
    /\ stitch_pc = "loop"
    /\ stitch_idx = n_audio_segments
    /\ stitch_pc' = "returned"
    /\ UNCHANGED <<n_audio_segments, stitch_idx, responses, all_segments,
                   time_offset>>
    /\ UNCHANGED <<splitVars, wrapVars, genVars, stampVars, pipeVars,
                   batchVars, concVars>>

NextStitch ==
    \/ TranscribeAndMerge
    \/ TranscribeFails
    \/ StitchReturn

SpecStitch == InitStitch /\ [][NextStitch]_vars

(***************************************************************************)
(* Claims about stitching (under SpecStitch)                               *)
(***************************************************************************)

\* The offset the claim prescribes after the first n chunks: it starts at
\* 0, a chunk with cues moves it to that chunk's last cue's end plus the
\* offset the chunk was shifted by, an empty chunk leaves it alone.
RECURSIVE OffsetAfter(_, _)
OffsetAfter(chunks, n) ==
    IF n = 0 THEN 0
    ELSE IF chunks[n] = <<>> THEN OffsetAfter(chunks, n - 1)
    ELSE Last(chunks[n]).end + OffsetAfter(chunks, n - 1)

\* The cue list the claim prescribes for the first n chunks.
RECURSIVE Stitched(_, _)
Stitched(chunks, n) ==
    IF n = 0 THEN <<>>
    ELSE Stitched(chunks, n - 1) \o
         [k \in 1 .. Len(chunks[n]) |->
             [start |-> chunks[n][k].start + OffsetAfter(chunks, n - 1),
              end   |-> chunks[n][k].end + OffsetAfter(chunks, n - 1),
              text  |-> chunks[n][k].text]]

\* The chunks' cues in order, unshifted.
RECURSIVE Flattened(_, _)
Flattened(chunks, n) ==
    IF n = 0 THEN <<>> ELSE Flattened(chunks, n - 1) \o chunks[n]

\* C3: chunks are merged in order with an offset that starts at 0; every
\* cue is emitted in its position as {start+offset, end+offset, text};
\* after a chunk with cues the offset is the shifted end of its last cue,
\* an empty chunk leaves it unchanged.  So there is one output cue per
\* input cue with the same text and duration, and
\* stitch([[{0,2,a}],[{0,3,b}]]) = [{0,2,a},{2,5,b}].
C3_StitchByLastEnd ==
    LET input == Flattened(responses, stitch_idx) IN
    /\ all_segments = Stitched(responses, stitch_idx)
    /\ time_offset = OffsetAfter(responses, stitch_idx)
    /\ Len(all_segments) = Len(input)
    /\ \A k \in 1 .. Len(input) :
           /\ all_segments[k].text = input[k].text
           /\ all_segments[k].end - all_segments[k].start
                  = input[k].end - input[k].start
    /\ responses = << <<[start |-> 0, end |-> 2, text |-> "a"]>>,
                      <<[start |-> 0, end |-> 3, text |-> "b"]>> >>
       => all_segments = <<[start |-> 0, end |-> 2, text |-> "a"],
                           [start |-> 2, end |-> 5, text |-> "b"]>>

\* A chunk with cues, then an empty chunk, then a chunk with cues, all
\* merged and returned.
C3_Witness ==
    /\ stitch_pc = "returned"
    /\ stitch_idx = 3
    /\ responses[1] # <<>> /\ responses[2] = <<>> /\ responses[3] # <<>>
    /\ Last(responses[1]).end > 0
    /\ time_offset > Last(responses[3]).end

WellFormedCues ==
    \A i \in 1 .. Len(responses) : \A k \in 1 .. Len(responses[i]) :
        /\ 0 <= responses[i][k].start
        /\ responses[i][k].start <= responses[i][k].end

ChunksSortedByStart ==
    \A i \in 1 .. Len(responses) : \A k \in 1 .. Len(responses[i]) - 1 :
        responses[i][k].start <= responses[i][k + 1].start

NonDecreasingStart ==
    \A k \in 1 .. Len(all_segments) - 1 :
        all_segments[k].start <= all_segments[k + 1].start

NeverReordered ==
    LET input == Flattened(responses, stitch_idx) IN
    /\ Len(all_segments) = Len(input)
    /\ \A k \in 1 .. Len(input) :
           /\ all_segments[k].text = input[k].text
           /\ all_segments[k].end - all_segments[k].start
                  = input[k].end - input[k].start

\* C4 as stated: for every list of chunks whose cues each satisfy
\* 0 <= start <= end, the stitched list is non-decreasing in start and
\* the cues are never reordered.
C4_SortedForAnyChunks ==
    WellFormedCues => NonDecreasingStart /\ NeverReordered

\* C4 as amended: when, besides 0 <= start <= end for every cue, the cues
\* of each chunk are themselves non-decreasing in start, the stitched list
\* is non-decreasing in start; stitching never reorders cues.
C4_SortedForSortedChunks ==
    /\ NeverReordered
    /\ (WellFormedCues /\ ChunksSortedByStart) => NonDecreasingStart

C4_Witness ==
    /\ stitch_pc = "returned"
    /\ WellFormedCues /\ ChunksSortedByStart
    /\ Len(all_segments) = 3
    /\ Len(responses) >= 2
    /\ \A i \in 1 .. Len(responses) : responses[i] # <<>>
    /\ all_segments[1].start < all_segments[3].start

\* C23: stitching rejects malformed chunk cue data: a chunk that holds a
\* cue with end < start makes stitching fail with a StitchingError, so it
\* never returns a stitched cue list for such chunks.
C23_MalformedChunkRejected ==
    stitch_pc = "returned" =>
        \A i \in 1 .. Len(responses) :
            \A k \in 1 .. Len(responses[i]) :
                responses[i][k].end >= responses[i][k].start

(***************************************************************************)
(* segment_text(text, max_chars)                                           *)
(***************************************************************************)

Chars == {"a", "b", " ", "\n"}

\* str.split(sep): the pieces between the separators; always at least one.
\* The cuts are the positions of the separators and the two ends.
SplitCuts(s, sep) ==
    {0, Len(s) + 1} \cup {i \in 1 .. Len(s) : s[i] = sep}

StrSplit(s, sep) ==
    LET cuts == SplitCuts(s, sep)
        Cut(k) == CHOOSE c \in cuts :
                      Cardinality({d \in cuts : d < c}) = k - 1
    IN  [k \in 1 .. Cardinality(cuts) - 1 |->
            SubSeq(s, Cut(k) + 1, Cut(k + 1) - 1)]

\* `not paragraph.strip()`: a paragraph holds no newline, so it is blank
\* when all its characters are spaces.
IsBlank(paragraph) == \A i \in 1 .. Len(paragraph) : paragraph[i] = " "

\* Lines 54 and 83: the word does not fit on the non-empty current line.
WordOverflowsMutant(current, word, max) ==
    current # <<>> /\ Len(current) + Len(word) > max
WordOverflowsEarly(current, word, max) ==
    current # <<>> /\ Len(current) + Len(word) + 1 >= max
WordOverflows(current, word, max) ==
    current # <<>> /\ Len(current) + Len(word) + 1 > max

\* The loop over the words, lines 52-61 and 82-90, from word i on; st is
\* the pair of `lines` and `current_line`.
RECURSIVE PackWords(_, _, _, _)
PackWords(words, i, st, max) ==
    IF i > Len(words) THEN st
    ELSE LET word == words[i] IN
         PackWords(words, i + 1,
             IF WordOverflows(st.current, word, max)
             THEN [lines |-> Append(st.lines, st.current), current |-> word]
             ELSE [lines |-> st.lines,
                   current |-> IF st.current # <<>>
                               THEN st.current \o <<" ">> \o word
                               ELSE word],
             max)

\* Lines 46-47, 65-66 and 69-70: append current_line if it is not empty.
Flush(st) ==
    IF st.current # <<>>
    THEN [lines |-> Append(st.lines, st.current), current |-> <<>>]
    ELSE st

\* Line 64: the paragraph is compared with the last one by value.
NotLastParagraph(paragraph, paragraphs) == paragraph # Last(paragraphs)

\* The loop over the paragraphs, lines 43-66, from paragraph i on.
RECURSIVE WrapParagraphs(_, _, _, _)
WrapParagraphs(paragraphs, i, st, max) ==
    IF i > Len(paragraphs) THEN st
    ELSE LET paragraph == paragraphs[i] IN
         IF IsBlank(paragraph)
         THEN WrapParagraphs(paragraphs, i + 1, Flush(st), max)
         ELSE LET packed == PackWords(StrSplit(paragraph, " "), 1, st, max)
              IN  WrapParagraphs(paragraphs, i + 1,
                      IF NotLastParagraph(paragraph, paragraphs)
                      THEN Flush(packed) ELSE packed,
                      max)

EmptyWrap == [lines |-> <<>>, current |-> <<>>]

\* Lines 37-70.
FirstPass(text, max) ==
    Flush(WrapParagraphs(StrSplit(text, "\n"), 1, EmptyWrap, max)).lines

\* Lines 75-92: a line longer than max_chars is packed again.
RECURSIVE SecondPass(_, _, _)
SecondPass(lines, i, max) ==
    IF i > Len(lines) THEN <<>>
    ELSE (IF Len(lines[i]) <= max
          THEN <<lines[i]>>
          ELSE Flush(PackWords(StrSplit(lines[i], " "), 1, EmptyWrap,
                               max)).lines)
         \o SecondPass(lines, i + 1, max)

segment_text(text, max) ==
    IF text = <<>> THEN <<text>>
    ELSE SecondPass(FirstPass(text, max), 1, max)

\* Three words of four letters, of which two fill a line of 9 columns.
ThreeWords ==
    Repeat("a", 4) \o <<" ">> \o Repeat("b", 4) \o <<" ">> \o Repeat("c", 4)

InitWrap ==
    /\ \/ /\ wrap_text \in ListsUpTo(Chars, MaxTextLen)
          /\ max_chars \in 1 .. MaxWidth
       \/ /\ wrap_text = ThreeWords
          /\ max_chars \in {8, 9}
    /\ wrap_lines = <<>>
    /\ wrap_called = FALSE
    /\ SplitIdle /\ StitchIdle /\ GenIdle /\ StampIdle /\ PipeIdle
    /\ BatchIdle /\ ConcIdle

SegmentText ==
    /\ ~wrap_called
    /\ wrap_lines' = segment_text(wrap_text, max_chars)
    /\ wrap_called' = TRUE
    /\ UNCHANGED <<wrap_text, max_chars>>
    /\ UNCHANGED <<splitVars, stitchVars, genVars, stampVars, pipeVars,
                   batchVars, concVars>>

NextWrap == SegmentText

SpecWrap == InitWrap /\ [][NextWrap]_vars

(***************************************************************************)
(* Claims about segment_text (under SpecWrap)                              *)
(***************************************************************************)

HasSpace(line) == \E i \in 1 .. Len(line) : line[i] = " "

\* C9: for every text and every max_chars >= 1, each returned line has at
\* most max_chars characters, except a line that is one single word
\* longer than max_chars.
C9_LineWidth ==
    wrap_called =>
        \A k \in 1 .. Len(wrap_lines) :
            \/ Len(wrap_lines[k]) <= max_chars
            \/ ~HasSpace(wrap_lines[k])

\* A word longer than max_chars was kept whole on its own line, next to
\* other lines.
C9_Witness ==
    /\ wrap_called
    /\ Len(wrap_lines) >= 2
    /\ \E k \in 1 .. Len(wrap_lines) :
           Len(wrap_lines[k]) > max_chars /\ ~HasSpace(wrap_lines[k])
    /\ \E k \in 1 .. Len(wrap_lines) : Len(wrap_lines[k]) = max_chars

\* The words of a string that holds no newline: its maximal runs of
\* characters other than space.
WordsOf(s) == SelectSeq(StrSplit(s, " "), LAMBDA w : w # <<>>)

\* For the paragraphs i.. of a text, the paragraph number of each of its
\* words, in order.
RECURSIVE WordParagraphs(_, _)
WordParagraphs(paragraphs, i) ==
    IF i > Len(paragraphs) THEN <<>>
    ELSE [k \in 1 .. Len(WordsOf(paragraphs[i])) |-> i]
         \o WordParagraphs(paragraphs, i + 1)

\* The number of words on the lines before line k.
RECURSIVE WordsBefore(_, _)
WordsBefore(lines, k) ==
    IF k = 1 THEN 0
    ELSE WordsBefore(lines, k - 1) + Len(WordsOf(lines[k - 1]))

\* C10: hard breaks are preserved: words that an explicit newline
\* separates in the input never share an output line, whatever the number
\* of paragraphs and also when paragraphs repeat.  (The j-th word of the
\* output is the j-th word of the input; a line must not hold words of two
\* paragraphs.)
C10_HardBreaksKept ==
    wrap_called =>
        LET paras == WordParagraphs(StrSplit(wrap_text, "\n"), 1) IN
        \A k \in 1 .. Len(wrap_lines) :
            LET first == WordsBefore(wrap_lines, k) + 1
                last  == WordsBefore(wrap_lines, k) + Len(WordsOf(wrap_lines[k]))
            IN  \A j \in first .. last :
                    j <= Len(paras) => paras[j] = paras[first]

\* The first word of a line.
FirstWord(line) == StrSplit(line, " ")[1]

\* C28: within a paragraph segment_text packs words greedily: a word goes
\* on the current non-empty line exactly when len(current) + 1 + len(word)
\* <= max_chars, otherwise the line is flushed and the word starts the
\* next one.  So a line that is followed by a line of the same paragraph
\* could not have held that line's first word as well, a line of several
\* words is within max_chars, and segment_text('aaaa bbbb cccc', 9) =
\* ['aaaa bbbb', 'cccc'].
C28_GreedyPacking ==
    wrap_called =>
        LET paras == WordParagraphs(StrSplit(wrap_text, "\n"), 1) IN
        /\ \A k \in 1 .. Len(wrap_lines) - 1 :
               LET last == WordsBefore(wrap_lines, k)
                               + Len(WordsOf(wrap_lines[k]))
               IN  (last + 1 <= Len(paras) /\ last >= 1
                        /\ paras[last] = paras[last + 1]) =>
                       Len(wrap_lines[k]) + 1 + Len(FirstWord(wrap_lines[k + 1]))
                           > max_chars
        /\ \A k \in 1 .. Len(wrap_lines) :
               HasSpace(wrap_lines[k]) => Len(wrap_lines[k]) <= max_chars
        /\ (wrap_text = ThreeWords /\ max_chars = 9) =>
               wrap_lines = <<Repeat("a", 4) \o <<" ">> \o Repeat("b", 4),
                              Repeat("c", 4)>>

\* The three words were wrapped at 9 columns: two on the first line, which
\* they fill, and the third on the next.
C28_Witness ==
    /\ wrap_called
    /\ wrap_text = ThreeWords
    /\ max_chars = 9
    /\ Len(wrap_lines) = 2
    /\ Len(wrap_lines[1]) = max_chars
    /\ FirstWord(wrap_lines[2]) = Repeat("c", 4)

(***************************************************************************)
(* SubtitleGenerator.generate and generate_srt / generate_vtt /            *)
(* generate_sbv, called with language_code = None as the pipeline does.    *)
(***************************************************************************)

SUPPORTED_FORMATS == {"srt", "vtt", "webvtt", "sbv"}

\* A value of a dict: a number (int or float, in ticks) or something else.
Num(n) == [kind |-> "num", val |-> n]
NotANumber == [kind |-> "str", val |-> 0]
Str(chars) == chars

Sec(n) == n * TicksPerSecond

\* A text that wraps at DEFAULT_MAX_CHARS: two words that fill a line to
\* the last column, a word wider than a line, and a second paragraph.
LongText ==
    Repeat("a", 20) \o <<" ">> \o Repeat("b", DEFAULT_MAX_CHARS - 21)
    \o <<" ">> \o Repeat("a", DEFAULT_MAX_CHARS + 1) \o <<"\n", "b">>

\* The segments generate is tried on.  A dict is a function from the keys
\* it holds to their values.  The texts wrap to 1, 3, 0, 1, 5, 3 and 4
\* lines.
ValidSegments ==
    { [start |-> Num(0), end |-> Num(Sec(3) \div 2), text |-> Str(<<"a">>)],
      [start |-> Num(Sec(3) \div 2), end |-> Num(Sec(4)),
       text |-> Str(<<"a", "\n", "b", "\n", "a", "b">>)],
      [start |-> Num(0), end |-> Num(Sec(4)), text |-> Str(<<" ">>)],
      [start |-> Num(Sec(4)), end |-> Num(Sec(4)), text |-> Str(<<>>)],
      [start |-> Num(0), end |-> Num(Sec(6) - 1),
       text |-> Str(<<"a", "\n", "b", "\n", "a", "b", "\n", "b", "a",
                      "\n", "a", "a">>)],
      [start |-> Num(Sec(2)), end |-> Num(Sec(3)), text |-> Str(LongText)],
      [start |-> Num(0), end |-> Num(Sec(4)),
       text |-> Str(<<"a", "\n", "b", "\n", "a", "b", "\n", "b", "a">>)] }

InvalidSegments ==
    { [start |-> Num(- Sec(1)), end |-> Num(Sec(2)), text |-> Str(<<"a">>)],
      [start |-> Num(0), end |-> Num(- Sec(1)), text |-> Str(<<"a">>)],
      [start |-> Num(Sec(4)), end |-> Num(Sec(3) \div 2),
       text |-> Str(<<"a">>)],
      [start |-> NotANumber, end |-> Num(Sec(2)), text |-> Str(<<"a">>)],
      [start |-> Num(0), end |-> NotANumber, text |-> Str(<<"a">>)],
      [start |-> Num(- Sec(2)), end |-> Num(- Sec(3)), text |-> Str(<<"a">>)],
      [start |-> Num(0), end |-> Num(Sec(2))],
      [end |-> Num(Sec(2)), text |-> Str(<<"a">>)],
      [text |-> Str(<<"a">>)] }

GenSegments == ValidSegments \cup InvalidSegments

\* The file at output_path before the call, when there is one.
OldFile == [exists |-> TRUE,
            content |-> <<[kind |-> "old", n |-> 0, text |-> <<>>,
                           from |-> <<>>, to |-> <<>>]>>]

\* A SubtitleFormatError: the fixed words of its message, the fields the
\* message names and the values it shows, in the order it shows them.
FieldError(msg, fields, values) ==
    [type |-> "SubtitleFormatError", msg |-> msg, fields |-> fields,
     values |-> values]
FormatError(msg) == FieldError(msg, {}, <<>>)

\* Lines 461-464: "Missing required field: " and the missing names.
MissingFieldError(missing_fields) ==
    FieldError("Missing required field", missing_fields, <<>>)

\* Lines 470-478: "Invalid timecode '<field>': <value> (must be ...)".
TimecodeErrorMutant(field, value) ==
    FieldError("Invalid timecode '" \o field \o "'", {field}, <<>>)
TimecodeError(field, value) ==
    FieldError("Invalid timecode '" \o field \o "'", {field}, <<value>>)

\* Lines 480-483: "Invalid timecode range: end (<end>) before start
\* (<start>)".
RangeError(start, end) ==
    FieldError("Invalid timecode range", {"end", "start"}, <<end, start>>)

\* _validate_segment: the SubtitleFormatError it raises, NoError if none.
ValidationErrorMutant(segment) ==
    IF {"start", "end", "text"} \ DOMAIN segment # {}
    THEN MissingFieldError({"start", "end", "text"} \ DOMAIN segment)
    ELSE IF segment.start.kind # "num"
    THEN TimecodeError("start", segment.start)
    ELSE IF segment.end.kind # "num" \/ segment.end.val < 0
    THEN TimecodeError("end", segment.end)
    ELSE IF segment.end.val < segment.start.val
    THEN RangeError(segment.start, segment.end)
    ELSE NoError

ValidationError(segment) ==
    IF {"start", "end", "text"} \ DOMAIN segment # {}
    THEN MissingFieldError({"start", "end", "text"} \ DOMAIN segment)
    ELSE IF segment.start.kind # "num" \/ segment.start.val < 0
    THEN TimecodeError("start", segment.start)
    ELSE IF segment.end.kind # "num" \/ segment.end.val < 0
    THEN TimecodeError("end", segment.end)
    ELSE IF segment.end.val < segment.start.val
    THEN RangeError(segment.start, segment.end)
    ELSE NoError

\* The decimal digits of a number n >= 0.
DigitChars == <<"0", "1", "2", "3", "4", "5", "6", "7", "8", "9">>

RECURSIVE DecimalDigits(_)
DecimalDigits(n) ==
    IF n < 10 THEN <<DigitChars[n + 1]>>
    ELSE Append(DecimalDigits(n \div 10), DigitChars[(n % 10) + 1])

\* The format specs :02d, :03d and (for the SBV hour) the bare field: the
\* digits of n, filled with zeros on the left up to `width` characters; a
\* negative number has its sign first and counts it in the width.
ZeroPadMutant(n, width) == DecimalDigits(n)
ZeroPad(n, width) ==
    LET digits == DecimalDigits(IF n < 0 THEN - n ELSE n)
        sign   == IF n < 0 THEN <<"-">> ELSE <<>>
        fill   == width - Len(sign) - Len(digits)
    IN  sign \o (IF fill > 0 THEN Repeat("0", fill) ELSE <<>>) \o digits

\* int(x) for x = num / den with den > 0: the fraction is dropped, towards
\* zero.
IntPart(num, den) ==
    IF num >= 0 THEN num \div den ELSE - ((- num) \div den)

\* Lines 106-107, 125-126 and 144-145.
TotalSeconds(ticks) == IntPart(ticks, TicksPerSecond)
MillisecondsMutant(ticks) ==
    (((ticks - TotalSeconds(ticks) * TicksPerSecond) * 1000) * 2
        + TicksPerSecond) \div (2 * TicksPerSecond)
Milliseconds(ticks) ==
    IntPart((ticks - TotalSeconds(ticks) * TicksPerSecond) * 1000,
            TicksPerSecond)

\* format_timestamp_srt / _vtt / _sbv: the fields that are formatted and
\* the string that is returned.
StampFields(ticks, sep, hour_width) ==
    LET total_seconds == TotalSeconds(ticks)
        milliseconds  == Milliseconds(ticks)
        hours         == total_seconds \div 3600
        minutes       == (total_seconds % 3600) \div 60
        secs          == total_seconds % 60
    IN  [hours |-> hours,
         minutes |-> minutes,
         secs |-> secs,
         milliseconds |-> milliseconds,
         sep |-> sep, hour_width |-> hour_width,
         text |-> ZeroPad(hours, hour_width) \o <<":">>
                  \o ZeroPad(minutes, 2) \o <<":">> \o ZeroPad(secs, 2)
                  \o <<sep>> \o ZeroPad(milliseconds, 3)]

format_timestamp_srt(ticks) == StampFields(ticks, ",", 2)
format_timestamp_vttMutant(ticks) == StampFields(ticks, ",", 2)
format_timestamp_vtt(ticks) == StampFields(ticks, ".", 2)
format_timestamp_sbv(ticks) == StampFields(ticks, ",", 1)

\* The lines of the output, one record per line.
TextLine(chars)    == [kind |-> "text", n |-> 0, text |-> chars,
                       from |-> <<>>, to |-> <<>>]
BlankLine          == [kind |-> "blank", n |-> 0, text |-> <<>>,
                       from |-> <<>>, to |-> <<>>]
IndexLine(n)       == [kind |-> "index", n |-> n, text |-> <<>>,
                       from |-> <<>>, to |-> <<>>]
ArrowLine(from, to) == [kind |-> "arrow", n |-> 0, text |-> <<>>,
                       from |-> <<from>>, to |-> <<to>>]
StampLine(stamp)   == [kind |-> "stamp", n |-> 0, text |-> <<>>,
                       from |-> <<stamp>>, to |-> <<>>]
HeaderLine         == [kind |-> "WEBVTT", n |-> 0, text |-> <<>>,
                       from |-> <<>>, to |-> <<>>]

\* Line 223: the number of pages the duration is divided by.
NumPages(n) == (n + 1) \div 2

\* Line 226, range(0, len(segmented_lines), 2): the index of the first
\* line of each page.
PageStartsMutant(n) == [p \in 1 .. n \div 2 |-> 2 * (p - 1)]
PageStarts(n) == [p \in 1 .. (n + 1) \div 2 |-> 2 * (p - 1)]

\* Lines 227-228: segmented_lines[page_start:page_end].
PageLinesMutant(segmented_lines, page_start) ==
    SubSeq(segmented_lines, page_start + 1,
           Min(page_start + 1, Len(segmented_lines)))
PageLines(segmented_lines, page_start) ==
    SubSeq(segmented_lines, page_start + 1,
           Min(page_start + 2, Len(segmented_lines)))

\* Lines 224 and 231: page_index * duration_per_page after the start (the
\* division is floored to a tick).
PageStartTime(start_time_seconds, total_duration, num_pages, page_index) ==
    start_time_seconds + (page_index * total_duration) \div num_pages

\* Lines 232-236: the last page ends at the end of the segment.
PageEndTimeMutant(start_time_seconds, end_time_seconds, total_duration, num_pages, page_index) ==
    IF page_index = num_pages - 1
    THEN end_time_seconds
    ELSE start_time_seconds + (page_index * total_duration) \div num_pages
PageEndTime(start_time_seconds, end_time_seconds, total_duration, num_pages, page_index) ==
    IF page_index = num_pages - 1
    THEN end_time_seconds
    ELSE start_time_seconds
           + ((page_index + 1) * total_duration) \div num_pages

\* Lines 212-236: the pages of one segment, each with its lines and its
\* share of the segment's time.
PagesOf(segment) ==
    LET start_time_seconds == segment.start.val
        end_time_seconds   == segment.end.val
        segmented_lines    == segment_text(segment.text, DEFAULT_MAX_CHARS)
        total_duration     == end_time_seconds - start_time_seconds
        num_pages          == NumPages(Len(segmented_lines))
        page_starts        == PageStarts(Len(segmented_lines))
    IN  [p \in 1 .. Len(page_starts) |->
            LET page_index == p - 1 IN
            [lines |-> PageLines(segmented_lines, page_starts[p]),
             start |-> PageStartTime(start_time_seconds, total_duration,
                                     num_pages, page_index),
             end   |-> PageEndTime(start_time_seconds, end_time_seconds,
                                   total_duration, num_pages, page_index)]]

TextLines(lines) == [k \in 1 .. Len(lines) |-> TextLine(lines[k])]

\* The lines one page adds to srt_lines / vtt_lines / sbv_lines.
SrtBlockMutant(page, entry_index) ==
    <<IndexLine(1),
      ArrowLine(format_timestamp_srt(page.start),
                format_timestamp_srt(page.end))>>
    \o TextLines(page.lines) \o <<BlankLine>>
SrtBlock(page, entry_index) ==
    <<IndexLine(entry_index),
      ArrowLine(format_timestamp_srt(page.start),
                format_timestamp_srt(page.end))>>
    \o TextLines(page.lines) \o <<BlankLine>>

VttBlock(page) ==
    <<ArrowLine(format_timestamp_vtt(page.start),
                format_timestamp_vtt(page.end))>>
    \o TextLines(page.lines) \o <<BlankLine>>

SbvBlock(page) ==
    <<StampLine(format_timestamp_sbv(page.start)),
      StampLine(format_timestamp_sbv(page.end))>>
    \o TextLines(page.lines) \o <<BlankLine>>

Block(fmt, page, entry_index) ==
    IF fmt = "srt" THEN SrtBlock(page, entry_index)
    ELSE IF fmt = "sbv" THEN SbvBlock(page)
    ELSE VttBlock(page)

\* The pages p.. of one segment.
RECURSIVE PageBlocks(_, _, _, _)
PageBlocks(fmt, pages, p, entry_index) ==
    IF p > Len(pages) THEN <<>>
    ELSE Block(fmt, pages[p], entry_index)
         \o PageBlocks(fmt, pages, p + 1, entry_index + 1)

\* The loop over the segments i.., entry_index being the next SRT index.
RECURSIVE SegmentBlocks(_, _, _, _)
SegmentBlocks(fmt, segments, i, entry_index) ==
    IF i > Len(segments) THEN <<>>
    ELSE LET pages == PagesOf(segments[i]) IN
         PageBlocks(fmt, pages, 1, entry_index)
         \o SegmentBlocks(fmt, segments, i + 1, entry_index + Len(pages))

\* The content list built by generate_srt / generate_vtt / generate_sbv.
ContentLines(fmt, segments) ==
    (IF fmt \in {"vtt", "webvtt"} THEN <<HeaderLine, BlankLine>> ELSE <<>>)
    \o SegmentBlocks(fmt, segments, 1, 1)

InitGenerate ==
    /\ gen_segments \in ListsUpTo(GenSegments, MaxGenCues)
    /\ output_format \in SUPPORTED_FORMATS \cup {"bogus"}
    /\ gen_pc = "start"
    /\ gen_i = 1
    /\ validated = 0
    /\ out_lines = <<>>
    /\ rendered = FALSE
    /\ out_file \in {Absent, OldFile}
    /\ old_file = out_file
    /\ gen_error = NoError
    /\ SplitIdle /\ StitchIdle /\ WrapIdle /\ StampIdle /\ PipeIdle
    /\ BatchIdle /\ ConcIdle

\* Line 174.
IsSupportedMutant(fmt) == TRUE
IsSupported(fmt) == fmt \in SUPPORTED_FORMATS

\* Lines 183-188: the generator the format selects; none for any other
\* format, and generate then returns None.
Dispatches(fmt) == fmt = "srt" \/ fmt \in {"vtt", "webvtt"} \/ fmt = "sbv"

\* generate, lines 174-188: the format check and the dispatch.
GenerateCall ==
    /\ gen_pc = "start"
    /\ IF ~IsSupported(output_format)
       THEN /\ gen_pc' = "raised"
            /\ gen_error' = FormatError("Unsupported format")
       ELSE /\ gen_pc' = IF Dispatches(output_format)
                         THEN "validate" ELSE "returned"
            /\ gen_error' = gen_error
    /\ UNCHANGED <<gen_segments, output_format, gen_i, validated, out_lines,
                   rendered, out_file, old_file>>
    /\ UNCHANGED <<splitVars, stitchVars, wrapVars, stampVars, pipeVars,
                   batchVars, concVars>>

\* One iteration of the validation loop, lines 204-205.
ValidateStep ==
    /\ gen_pc = "validate"
    /\ gen_i <= Len(gen_segments)
    /\ validated' = validated + 1
    /\ LET error == ValidationError(gen_segments[gen_i]) IN
       IF error # NoError
       THEN /\ gen_pc' = "raised"
            /\ gen_error' = error
            /\ gen_i' = gen_i
       ELSE /\ gen_pc' = "validate"
            /\ gen_error' = gen_error
            /\ gen_i' = gen_i + 1
    /\ UNCHANGED <<gen_segments, output_format, out_lines, rendered,
                   out_file, old_file>>
    /\ UNCHANGED <<splitVars, stitchVars, wrapVars, stampVars, pipeVars,
                   batchVars, concVars>>

\* Lines 207-246: the content list is built in memory.  The loop reads
\* segment["start"], segment["end"] and segment["text"] and assigns to
\* none of them.
RenderContentMutant ==
    /\ gen_pc = "validate"
    /\ gen_i > Len(gen_segments)
    /\ out_lines' = ContentLines(output_format, gen_segments)
    /\ gen_segments' = [k \in 1 .. Len(gen_segments) |->
                            [gen_segments[k] EXCEPT !.text = <<>>]]
    /\ rendered' = TRUE
    /\ gen_pc' = "write"
    /\ UNCHANGED <<output_format, gen_i, validated, out_file,
                   old_file, gen_error>>
    /\ UNCHANGED <<splitVars, stitchVars, wrapVars, stampVars, pipeVars,
                   batchVars, concVars>>
RenderContent ==
    /\ gen_pc = "validate"
    /\ gen_i > Len(gen_segments)
    /\ out_lines' = ContentLines(output_format, gen_segments)
    /\ rendered' = TRUE
    /\ gen_pc' = "write"
    /\ UNCHANGED <<gen_segments, output_format, gen_i, validated, out_file,
                   old_file, gen_error>>
    /\ UNCHANGED <<splitVars, stitchVars, wrapVars, stampVars, pipeVars,
                   batchVars, concVars>>

\* Lines 249-250, Path.write_text: the file is opened for writing, which
\* creates or empties it ...
WriteOpen ==
    /\ gen_pc = "write"
    /\ out_file' = [exists |-> TRUE, content |-> <<>>]
    /\ gen_pc' = "writing"
    /\ UNCHANGED <<gen_segments, output_format, gen_i, validated, out_lines,
                   rendered, old_file, gen_error>>
    /\ UNCHANGED <<splitVars, stitchVars, wrapVars, stampVars, pipeVars,
                   batchVars, concVars>>

\* ... or cannot be opened (no such directory, no permission): OSError.
WriteOpenFails ==
    /\ gen_pc = "write"
    /\ gen_pc' = "raised"
    /\ gen_error' = [type |-> "OSError", msg |-> "open", fields |-> {},
                      values |-> <<>>]
    /\ UNCHANGED <<gen_segments, output_format, gen_i, validated, out_lines,
                   rendered, out_file, old_file>>
    /\ UNCHANGED <<splitVars, stitchVars, wrapVars, stampVars, pipeVars,
                   batchVars, concVars>>

\* ... then the joined text is written and generate returns the path.
WriteData ==
    /\ gen_pc = "writing"
    /\ out_file' = [exists |-> TRUE, content |-> out_lines]
    /\ gen_pc' = "returned"
    /\ UNCHANGED <<gen_segments, output_format, gen_i, validated, out_lines,
                   rendered, old_file, gen_error>>
    /\ UNCHANGED <<splitVars, stitchVars, wrapVars, stampVars, pipeVars,
                   batchVars, concVars>>

\* ... or the write fails part-way (disk full, I/O error): OSError, and
\* the file keeps what had reached it, which is less than the document.
WriteDataFails ==
    /\ gen_pc = "writing"
    /\ \E k \in 0 .. Len(out_lines) - 1 :
           out_file' = [exists |-> TRUE, content |-> SubSeq(out_lines, 1, k)]
    /\ gen_pc' = "raised"
    /\ gen_error' = [type |-> "OSError", msg |-> "write", fields |-> {},
                      values |-> <<>>]
    /\ UNCHANGED <<gen_segments, output_format, gen_i, validated, out_lines,
                   rendered, old_file>>
    /\ UNCHANGED <<splitVars, stitchVars, wrapVars, stampVars, pipeVars,
                   batchVars, concVars>>

NextGenerate ==
    \/ GenerateCall
    \/ ValidateStep
    \/ RenderContent
    \/ WriteOpen
    \/ WriteOpenFails
    \/ WriteData
    \/ WriteDataFails

SpecGenerate == InitGenerate /\ [][NextGenerate]_vars

(***************************************************************************)
(* format_timestamp_srt, format_timestamp_vtt, format_timestamp_sbv        *)
(***************************************************************************)

\* The times the formatters are tried on: whole seconds around the minute,
\* the hour, ten hours and the day, each with fractions (in ticks of
\* 0.1 ms) around a whole millisecond, the half second and the next second.
SecondSamples ==
    {0, 5, 59, 60, 3599, 3600, 3661, 35999, 36000, 36661, 86399, 86400}
FractionSamples ==
    {0, 1, 4, 5, 9, 10, 4994, 4995, 5000, 9989, 9990, 9994, 9995, 9999}
StampTimes ==
    {Sec(s) + f : s \in SecondSamples, f \in FractionSamples}

InitStamp ==
    /\ stamp_seconds \in StampTimes
    /\ stamp_format \in {"srt", "vtt", "sbv"}
    /\ stamp_result = <<>>
    /\ SplitIdle /\ StitchIdle /\ WrapIdle /\ GenIdle /\ PipeIdle
    /\ BatchIdle /\ ConcIdle

FormatTimestamp ==
    /\ stamp_result = <<>>
    /\ stamp_result' =
           <<IF stamp_format = "srt" THEN format_timestamp_srt(stamp_seconds)
             ELSE IF stamp_format = "vtt"
             THEN format_timestamp_vtt(stamp_seconds)
             ELSE format_timestamp_sbv(stamp_seconds)>>
    /\ UNCHANGED <<stamp_seconds, stamp_format>>
    /\ UNCHANGED <<splitVars, stitchVars, wrapVars, genVars, pipeVars,
                   batchVars, concVars>>

NextStamp == FormatTimestamp

SpecStamp == InitStamp /\ [][NextStamp]_vars

(***************************************************************************)
(* Claims about generate (under SpecGenerate)                              *)
(***************************************************************************)

\* A cue the claims call invalid: a field is missing, start or end is not
\* a number or is negative, or end < start.
InvalidCue(segment) ==
    \/ \E f \in {"start", "end", "text"} : f \notin DOMAIN segment
    \/ /\ DOMAIN segment = {"start", "end", "text"}
       /\ \/ segment.start.kind # "num"
          \/ segment.end.kind # "num"
          \/ /\ segment.start.kind = "num" /\ segment.end.kind = "num"
             /\ \/ segment.start.val < 0
                \/ segment.end.val < 0
                \/ segment.end.val < segment.start.val

\* C1: for srt, vtt, webvtt and sbv, every cue is validated before any
\* output is produced: if a cue at any position (also after valid cues) has
\* a missing field, a negative or non-numeric start or end, or end < start,
\* generate raises SubtitleFormatError and the output file is neither
\* created nor modified.
C1_ValidationBeforeOutput ==
    output_format \in {"srt", "vtt", "webvtt", "sbv"} =>
        /\ (rendered \/ out_lines # <<>> \/ out_file # old_file) =>
               /\ validated = Len(gen_segments)
               /\ \A i \in 1 .. Len(gen_segments) :
                      ~InvalidCue(gen_segments[i])
        /\ (\E i \in 1 .. Len(gen_segments) : InvalidCue(gen_segments[i])) =>
               /\ out_file = old_file
               /\ gen_pc \notin {"write", "writing", "returned"}
               /\ gen_pc = "raised" =>
                      gen_error.type = "SubtitleFormatError"

\* generate raised on an invalid second cue after validating a valid first
\* one, and the file that was there is as it was.
C1_Witness ==
    /\ gen_pc = "raised"
    /\ output_format \in {"srt", "vtt", "webvtt", "sbv"}
    /\ Len(gen_segments) = 2
    /\ ~InvalidCue(gen_segments[1]) /\ InvalidCue(gen_segments[2])
    /\ validated = 2
    /\ gen_error.type = "SubtitleFormatError"
    /\ old_file = OldFile /\ out_file = OldFile

\* C2: with an output_format outside {srt, vtt, webvtt, sbv} generate
\* raises SubtitleFormatError before any cue is validated, wrapped or
\* rendered, and the destination file is as before: absent if it was
\* absent, unchanged if it existed.
C2_UnsupportedFormat ==
    output_format \notin {"srt", "vtt", "webvtt", "sbv"} =>
        /\ validated = 0 /\ ~rendered /\ out_lines = <<>>
        /\ out_file = old_file
        /\ gen_pc \in {"start", "raised"}
        /\ gen_pc = "raised" =>
               gen_error = FormatError("Unsupported format")

C2_Witness ==
    /\ output_format = "bogus"
    /\ gen_pc = "raised"
    /\ gen_error.type = "SubtitleFormatError"
    /\ Len(gen_segments) >= 1
    /\ old_file = Absent /\ out_file = Absent

(***************************************************************************)
(* Claims about wrapping and pagination (under SpecGenerate)               *)
(***************************************************************************)

\* generate has returned the path of the document it rendered and wrote.
DocumentWritten ==
    /\ gen_pc = "returned" /\ rendered
    /\ out_file = [exists |-> TRUE, content |-> out_lines]

\* The maximal runs of characters of s that are not in seps, in order.
RunsOutside(s, seps) ==
    LET cuts == {0, Len(s) + 1} \cup {i \in 1 .. Len(s) : s[i] \in seps}
        Cut(k) == CHOOSE c \in cuts :
                      Cardinality({d \in cuts : d < c}) = k - 1
        pieces == [k \in 1 .. Cardinality(cuts) - 1 |->
                      SubSeq(s, Cut(k) + 1, Cut(k + 1) - 1)]
    IN  SelectSeq(pieces, LAMBDA w : w # <<>>)

\* The words of a sequence of strings, one string after the other.
RECURSIVE WordsOfAll(_, _)
WordsOfAll(strings, i) ==
    IF i > Len(strings) THEN <<>>
    ELSE RunsOutside(strings[i], {" ", "\n"}) \o WordsOfAll(strings, i + 1)

\* The text lines of the rendered document, in order.
EmittedTextLines ==
    LET text_lines == SelectSeq(out_lines, LAMBDA l : l.kind = "text")
    IN  [k \in 1 .. Len(text_lines) |-> text_lines[k].text]

SegmentTexts == [i \in 1 .. Len(gen_segments) |-> gen_segments[i].text]

\* C11: wrapping and pagination lose nothing: the words of the cues' texts
\* (maximal runs of characters other than space and newline) are the words
\* of the lines of the emitted pages, each once, whole and in the original
\* order, however many lines a text wraps to.
C11_WordsKept ==
    DocumentWritten =>
        WordsOfAll(EmittedTextLines, 1) = WordsOfAll(SegmentTexts, 1)

\* A document was written whose cues wrap to five lines and, by width, to
\* three lines with a word wider than a line.
C11_Witness ==
    /\ gen_pc = "returned"
    /\ Len(gen_segments) = 2
    /\ Len(segment_text(gen_segments[1].text, DEFAULT_MAX_CHARS)) = 5
    /\ gen_segments[2].text = LongText
    /\ \E k \in 1 .. Len(EmittedTextLines) :
           Len(EmittedTextLines[k]) > DEFAULT_MAX_CHARS
    /\ Len(WordsOfAll(EmittedTextLines, 1)) = 9

\* The blocks of a document.  A block starts at its timing: an arrow line
\* (srt, vtt) or the first of two stamp lines (sbv).
TimingHeads(doc) ==
    {k \in 1 .. Len(doc) :
        \/ doc[k].kind = "arrow"
        \/ /\ doc[k].kind = "stamp"
           /\ k < Len(doc)
           /\ doc[k + 1].kind = "stamp"}

\* The block whose timing starts at line k: its index line if it has one,
\* its two timestamps, its text lines, and whether a blank line closes it.
BlockAt(doc, k) ==
    LET arrow  == doc[k].kind = "arrow"
        first  == IF arrow THEN k + 1 ELSE k + 2
        last   == CHOOSE e \in first - 1 .. Len(doc) :
                      /\ \A j \in first .. e : doc[j].kind = "text"
                      /\ e < Len(doc) => doc[e + 1].kind # "text"
    IN  [index  |-> IF k > 1 /\ doc[k - 1].kind = "index"
                    THEN doc[k - 1].n ELSE 0,
         from   |-> doc[k].from[1],
         to     |-> IF arrow THEN doc[k].to[1] ELSE doc[k + 1].from[1],
         lines  |-> [j \in 1 .. last - first + 1 |->
                        doc[first + j - 1].text],
         closed |-> last < Len(doc) /\ doc[last + 1].kind = "blank"]

\* The pages of a document, in order.
PagesIn(doc) ==
    LET heads == TimingHeads(doc)
        HeadOf(p) == CHOOSE k \in heads :
                         Cardinality({h \in heads : h < k}) = p - 1
    IN  [p \in 1 .. Cardinality(heads) |-> BlockAt(doc, HeadOf(p))]

\* The emitted pages.
EmittedPages == PagesIn(out_lines)

\* The lines cue i wraps to, and ceil(n / 2).
WrappedLines(i) == segment_text(gen_segments[i].text, DEFAULT_MAX_CHARS)
CeilHalf(n) == CHOOSE p \in 0 .. n : 2 * p >= n /\ 2 * (p - 1) < n

\* The number of pages ceil(n / 2) gives the cues before cue i.
RECURSIVE PagesBefore(_)
PagesBefore(i) ==
    IF i = 1 THEN 0
    ELSE PagesBefore(i - 1) + CeilHalf(Len(WrappedLines(i - 1)))

EveryCueHasLines ==
    \A i \in 1 .. Len(gen_segments) : Len(WrappedLines(i)) >= 1

\* C12: a cue whose text wraps to n >= 1 lines gets exactly ceil(n / 2)
\* pages; its lines go to the pages in the original order, two per page,
\* and only its last page may hold a single line: no page holds no line or
\* more than two.
C12_TwoLinesPerPage ==
    (DocumentWritten /\ EveryCueHasLines) =>
        /\ Len(EmittedPages) = PagesBefore(Len(gen_segments) + 1)
        /\ \A i \in 1 .. Len(gen_segments) :
               LET lines == WrappedLines(i)
                   n     == Len(lines)
               IN  \A p \in 1 .. CeilHalf(n) :
                       LET page == EmittedPages[PagesBefore(i) + p].lines
                       IN  /\ Len(page) \in {1, 2}
                           /\ Len(page) = 1 => p = CeilHalf(n)
                           /\ \A j \in 1 .. Len(page) :
                                  page[j] = lines[2 * (p - 1) + j]
                           /\ p = CeilHalf(n) =>
                                  2 * (p - 1) + Len(page) = n

\* A cue of five lines came out as three pages, the third with one line,
\* followed by the two pages of a cue of three lines.
C12_Witness ==
    /\ gen_pc = "returned"
    /\ Len(gen_segments) = 2
    /\ Len(WrappedLines(1)) = 5 /\ Len(WrappedLines(2)) = 3
    /\ Len(EmittedPages) = 5
    /\ Len(EmittedPages[3].lines) = 1
    /\ Len(EmittedPages[4].lines) = 2
    /\ Len(EmittedPages[5].lines) = 1

\* The time a formatted timestamp shows, in milliseconds, and the ticks
\* that make one millisecond.
MsOf(stamp) ==
    ((stamp.hours * 60 + stamp.minutes) * 60 + stamp.secs) * 1000
        + stamp.milliseconds
TicksPerMs == TicksPerSecond \div 1000

\* The timestamp shows the time num / den ticks, cut to the millisecond.
ShowsTime(stamp, num, den) ==
    /\ MsOf(stamp) * TicksPerMs * den <= num
    /\ num < (MsOf(stamp) + 1) * TicksPerMs * den

\* C13: a cue [cueStart, cueEnd] with numPages >= 1 pages has page i
\* (from 0) start at cueStart + i*d and end at cueStart + (i+1)*d, where
\* d = (cueEnd - cueStart) / numPages, but the last page ends at cueEnd;
\* so the first page starts at cueStart, a page ends where the next one
\* starts, and cueStart <= start <= end <= cueEnd for every page.  (The
\* times are read off the written timestamps, to the millisecond.)
C13_PageTimes ==
    (DocumentWritten /\ EveryCueHasLines) =>
        \A i \in 1 .. Len(gen_segments) :
            LET cueStart == gen_segments[i].start.val
                cueEnd   == gen_segments[i].end.val
                numPages == CeilHalf(Len(WrappedLines(i)))
                Page(k)  == EmittedPages[PagesBefore(i) + k + 1]
            IN  /\ ShowsTime(Page(0).from, cueStart, 1)
                /\ ShowsTime(Page(numPages - 1).to, cueEnd, 1)
                /\ \A k \in 0 .. numPages - 1 :
                       /\ ShowsTime(Page(k).from,
                              cueStart * numPages
                                  + k * (cueEnd - cueStart), numPages)
                       /\ k < numPages - 1 =>
                              /\ ShowsTime(Page(k).to,
                                     cueStart * numPages
                                         + (k + 1) * (cueEnd - cueStart),
                                     numPages)
                              /\ MsOf(Page(k).to) = MsOf(Page(k + 1).from)
                       /\ cueStart \div TicksPerMs <= MsOf(Page(k).from)
                       /\ MsOf(Page(k).from) <= MsOf(Page(k).to)
                       /\ MsOf(Page(k).to) <= cueEnd \div TicksPerMs

\* A cue of three pages whose duration does not divide by three, then a
\* cue of no duration: the pages start at 0, 1.999 s and 3.999 s, the
\* third ends at the cue's end, and the last page starts and ends at 4 s.
C13_Witness ==
    /\ gen_pc = "returned"
    /\ Len(gen_segments) = 2
    /\ gen_segments[1].end.val = Sec(6) - 1
    /\ gen_segments[2].start.val = gen_segments[2].end.val
    /\ Len(EmittedPages) = 4
    /\ MsOf(EmittedPages[1].from) = 0
    /\ MsOf(EmittedPages[2].from) = 1999
    /\ MsOf(EmittedPages[3].from) = 3999
    /\ MsOf(EmittedPages[3].to) = 5999
    /\ MsOf(EmittedPages[4].from) = 4000
    /\ MsOf(EmittedPages[4].to) = 4000

\* The pages cue i is due when a cue of no line is to get one page.
PagesDue(i) ==
    IF Len(WrappedLines(i)) = 0 THEN 1 ELSE CeilHalf(Len(WrappedLines(i)))

RECURSIVE PagesDueBefore(_)
PagesDueBefore(i) ==
    IF i = 1 THEN 0 ELSE PagesDueBefore(i - 1) + PagesDue(i - 1)

\* C14: a cue whose text wraps to zero lines (numPages = 0) gets exactly
\* one page, from cueStart to cueEnd, holding a single empty line; so each
\* valid cue of the document has at least one block in the output.
C14_BlankCueGetsPage ==
    DocumentWritten =>
        /\ Len(EmittedPages) = PagesDueBefore(Len(gen_segments) + 1)
        /\ \A i \in 1 .. Len(gen_segments) :
               Len(WrappedLines(i)) = 0 =>
                   LET page == EmittedPages[PagesDueBefore(i) + 1]
                   IN  /\ ShowsTime(page.from, gen_segments[i].start.val, 1)
                       /\ ShowsTime(page.to, gen_segments[i].end.val, 1)
                       /\ page.lines = << <<>> >>

(***************************************************************************)
(* Claims about the three output syntaxes (under SpecGenerate)             *)
(***************************************************************************)

\* The numbers on the index lines of the document, in order.
EmittedIndices ==
    LET index_lines == SelectSeq(out_lines, LAMBDA l : l.kind = "index")
    IN  [k \in 1 .. Len(index_lines) |-> index_lines[k].n]

\* C15: in SRT output the block indices are exactly 1, 2, ..., N in the
\* order of emission, counted across all pages of all cues: the index does
\* not restart at a new cue and no number is skipped or repeated.
C15_SrtIndices ==
    (DocumentWritten /\ output_format = "srt") =>
        /\ Len(EmittedIndices) = Len(EmittedPages)
        /\ \A p \in 1 .. Len(EmittedPages) :
               /\ EmittedPages[p].index = p
               /\ EmittedIndices[p] = p

\* An SRT document of two cues of several pages each: the first page of
\* the second cue carries index 4.
C15_Witness ==
    /\ gen_pc = "returned"
    /\ output_format = "srt"
    /\ Len(gen_segments) = 2
    /\ Len(WrappedLines(1)) = 5 /\ Len(WrappedLines(2)) = 4
    /\ EmittedIndices = <<1, 2, 3, 4, 5>>
    /\ out_file.content = out_lines

\* What a page says whatever the syntax: the hour, minute, second and
\* millisecond of its start and end, and its text lines.
TimeValues(stamp) ==
    <<stamp.hours, stamp.minutes, stamp.secs, stamp.milliseconds>>

PageValues(pages) ==
    [p \in 1 .. Len(pages) |->
        [from  |-> TimeValues(pages[p].from),
         to    |-> TimeValues(pages[p].to),
         lines |-> pages[p].lines]]

\* The written form of a timestamp: digits, with ':' after the hour and
\* the minute and `sep` before three millisecond digits; the hour has at
\* least hour_digits digits and no more than it needs.
WrittenAs(stamp, sep, hour_digits) ==
    LET text == stamp.text
        n    == Len(text)
    IN  /\ n >= 10 + hour_digits
        /\ text[n - 3] = sep
        /\ text[n - 6] = ":" /\ text[n - 9] = ":"
        /\ n > 10 + hour_digits => text[1] # "0"

KindsOf(doc) == {doc[k].kind : k \in 1 .. Len(doc)}

\* The syntax of each format.
SrtSyntax(doc) ==
    /\ KindsOf(doc) \subseteq {"index", "arrow", "text", "blank"}
    /\ \A k \in TimingHeads(doc) :
           /\ k > 1 /\ doc[k - 1].kind = "index"
           /\ WrittenAs(doc[k].from[1], ",", 2)
           /\ WrittenAs(doc[k].to[1], ",", 2)

VttSyntax(doc) ==
    /\ Len(doc) >= 2
    /\ doc[1].kind = "WEBVTT" /\ doc[2].kind = "blank"
    /\ \A k \in 2 .. Len(doc) :
           doc[k].kind \in {"arrow", "text", "blank"}
    /\ \A k \in TimingHeads(doc) :
           /\ WrittenAs(doc[k].from[1], ".", 2)
           /\ WrittenAs(doc[k].to[1], ".", 2)

SbvSyntax(doc) ==
    /\ KindsOf(doc) \subseteq {"stamp", "text", "blank"}
    /\ \A k \in TimingHeads(doc) :
           /\ WrittenAs(doc[k].from[1], ",", 1)
           /\ WrittenAs(doc[k + 1].from[1], ",", 1)
    /\ \A k \in 1 .. Len(doc) :
           doc[k].kind = "stamp" =>
               \/ k \in TimingHeads(doc)
               \/ k - 1 \in TimingHeads(doc)

ShownSeconds(stamp) == (stamp.hours * 60 + stamp.minutes) * 60 + stamp.secs

\* h = totalSeconds div 3600, m = (totalSeconds mod 3600) div 60 and
\* s = totalSeconds mod 60, for totalSeconds = floor(seconds).
HoursMinutesSeconds(stamp) ==
    /\ stamp.minutes \in 0 .. 59 /\ stamp.secs \in 0 .. 59
    /\ stamp.hours >= 0
    /\ ShownSeconds(stamp) * TicksPerSecond <= stamp_seconds
    /\ stamp_seconds < (ShownSeconds(stamp) + 1) * TicksPerSecond

\* The fraction of a second (in ticks) left over by the shown seconds.
FractionTicks(stamp) == stamp_seconds - ShownSeconds(stamp) * TicksPerSecond

\* C17 as stated: for every non-negative time each formatter computes
\* totalSeconds = floor(seconds), ms = round((seconds - totalSeconds) *
\* 1000), h = totalSeconds div 3600, m = (totalSeconds mod 3600) div 60 and
\* s = totalSeconds mod 60.  (ms is a nearest integer of the product.)
C17_MillisecondsRounded ==
    stamp_result # <<>> =>
        LET stamp == stamp_result[1] IN
        /\ HoursMinutesSeconds(stamp)
        /\ 2 * (stamp.milliseconds * TicksPerMs - FractionTicks(stamp))
               <= TicksPerMs
        /\ 2 * (FractionTicks(stamp) - stamp.milliseconds * TicksPerMs)
               <= TicksPerMs

\* C17 as amended: for every non-negative time each formatter computes
\* totalSeconds = floor(seconds) and ms = the integer part of
\* (seconds - totalSeconds) * 1000, the fraction of a millisecond being
\* dropped, not rounded; h, m and s are as stated.
C17_MillisecondsTruncated ==
    stamp_result # <<>> =>
        LET stamp == stamp_result[1] IN
        /\ HoursMinutesSeconds(stamp)
        /\ stamp.milliseconds * TicksPerMs <= FractionTicks(stamp)
        /\ FractionTicks(stamp) < (stamp.milliseconds + 1) * TicksPerMs

\* 3661.9999 s was formatted for VTT: 1 h, 1 min, 1 s and 999 ms.
C17_Witness ==
    /\ stamp_result # <<>>
    /\ stamp_format = "vtt"
    /\ stamp_seconds = Sec(3661) + 9999
    /\ stamp_result[1].hours = 1 /\ stamp_result[1].minutes = 1
    /\ stamp_result[1].secs = 1 /\ stamp_result[1].milliseconds = 999

\* The fields of the returned string, between ':' and the separator, and
\* the number a field of digits writes.
StampTextFields == RunsOutside(stamp_result[1].text, {":", ",", "."})

DigitValue(c) == CHOOSE d \in 0 .. 9 : DigitChars[d + 1] = c

RECURSIVE FieldValue(_)
FieldValue(field) ==
    IF field = <<>> THEN 0
    ELSE 10 * FieldValue(SubSeq(field, 1, Len(field) - 1))
         + DigitValue(field[Len(field)])

AllDigits(field) ==
    \A k \in 1 .. Len(field) : \E d \in 1 .. 10 : DigitChars[d] = field[k]

\* C18: for every non-negative time the formatted timestamp has a
\* millisecond field of exactly three digits, 000 to 999, and minute and
\* second fields from 00 to 59; a fraction finer than a millisecond never
\* carries into the seconds or makes a fourth millisecond digit: 5.9999 s
\* is written 00:00:05,999.
C18_FieldWidths ==
    stamp_result # <<>> =>
        LET fields == StampTextFields IN
        /\ Len(fields) = 4
        /\ \A k \in 1 .. 4 : AllDigits(fields[k])
        /\ Len(fields[2]) = 2 /\ FieldValue(fields[2]) \in 0 .. 59
        /\ Len(fields[3]) = 2 /\ FieldValue(fields[3]) \in 0 .. 59
        /\ Len(fields[4]) = 3 /\ FieldValue(fields[4]) \in 0 .. 999
        /\ LET shown == (FieldValue(fields[1]) * 60
                             + FieldValue(fields[2])) * 60
                        + FieldValue(fields[3])
           IN  /\ shown * TicksPerSecond <= stamp_seconds
               /\ stamp_seconds < (shown + 1) * TicksPerSecond
        /\ (stamp_seconds = Sec(6) - 1 /\ stamp_format = "srt") =>
               stamp_result[1].text
                   = <<"0", "0", ":", "0", "0", ":", "0", "5", ",",
                       "9", "9", "9">>

\* 59.9999 s was formatted for SRT and is written 00:00:59,999.
C18_Witness ==
    /\ stamp_result # <<>>
    /\ stamp_format = "srt"
    /\ stamp_seconds = Sec(60) - 1
    /\ stamp_result[1].text
           = <<"0", "0", ":", "0", "0", ":", "5", "9", ",", "9", "9", "9">>

(***************************************************************************)
(* Claims about validation errors (under SpecGenerate)                     *)
(***************************************************************************)

\* What is wrong with a cue, told apart from how _validate_segment looks
\* for it.
MissingNames(cue) == {"start", "end", "text"} \ DOMAIN cue
BadTime(cue, field) ==
    /\ field \in DOMAIN cue
    /\ cue[field].kind # "num" \/ cue[field].val < 0
EndBeforeStart(cue) ==
    /\ MissingNames(cue) = {}
    /\ ~BadTime(cue, "start") /\ ~BadTime(cue, "end")
    /\ cue.end.val < cue.start.val

InvalidCueIndices ==
    {i \in 1 .. Len(gen_segments) : InvalidCue(gen_segments[i])}
FirstInvalidCue ==
    gen_segments[CHOOSE i \in InvalidCueIndices :
                     \A j \in InvalidCueIndices : i <= j]

RaisedByValidation ==
    /\ gen_pc = "raised"
    /\ gen_error.type = "SubtitleFormatError"
    /\ gen_error.msg # "Unsupported format"

\* C25: every SubtitleFormatError that cue validation raises tells the
\* offending field and its value: a negative start is reported as field
\* 'start' with its value, a negative end as field 'end' with its value,
\* end < start with both values, a missing field by its name; when several
\* cues of the document are invalid, the error is that of the first of
\* them in document order.
C25_ErrorNamesFieldAndValue ==
    RaisedByValidation =>
        /\ InvalidCueIndices # {}
        /\ LET cue == FirstInvalidCue IN
           /\ gen_error.fields # {}
           /\ MissingNames(cue) # {} =>
                  gen_error.fields = MissingNames(cue)
           /\ (MissingNames(cue) = {} /\ BadTime(cue, "start")) =>
                  /\ gen_error.fields = {"start"}
                  /\ gen_error.values = <<cue.start>>
           /\ (MissingNames(cue) = {} /\ ~BadTime(cue, "start")
                  /\ BadTime(cue, "end")) =>
                  /\ gen_error.fields = {"end"}
                  /\ gen_error.values = <<cue.end>>
           /\ EndBeforeStart(cue) =>
                  /\ gen_error.fields = {"end", "start"}
                  /\ gen_error.values = <<cue.end, cue.start>>

\* A document of two invalid cues, a negative end before a negative
\* start, has been rejected for the end of its first cue.
C25_Witness ==
    /\ RaisedByValidation
    /\ Len(gen_segments) = 2
    /\ MissingNames(gen_segments[1]) = {}
    /\ ~BadTime(gen_segments[1], "start")
    /\ gen_segments[1].end.kind = "num" /\ gen_segments[1].end.val < 0
    /\ MissingNames(gen_segments[2]) = {}
    /\ gen_segments[2].start.kind = "num" /\ gen_segments[2].start.val < 0
    /\ gen_error.fields = {"end"}
    /\ gen_error.values = <<gen_segments[1].end>>

\* C27: the start and end of a cue are shifted once, by stitching, and are
\* immutable afterwards: subtitle generation (validation, wrapping,
\* pagination, rendering, writing) leaves the start, end and text of
\* every cue of its input list as they were.
C27_GenerateLeavesCues == [][gen_segments' = gen_segments]_vars

\* A document of two cues, the second with shifted times, has been
\* generated.
C27_Witness ==
    /\ DocumentWritten
    /\ Len(gen_segments) = 2
    /\ gen_segments[2].start.val > 0
    /\ gen_segments[2].text # <<>>
    /\ Len(out_lines) > 0

(***************************************************************************)
(* Claims about the written file (under SpecGenerate)                      *)
(***************************************************************************)

PipelineDurations == {600, 900, 901, 1799, 2700}

InitPipeline ==
    /\ pv_pc = "extract"
    /\ pv_audio_path = <<>>
    /\ pv_audio_segments = <<>>
    /\ pv_audio_on_disk = FALSE
    /\ pv_audio_created = FALSE
    /\ pv_transcribed = 0
    /\ pv_cleanup_idx = 0
    /\ pv_remove_failed = {}
    /\ pv_result = "running"
    /\ pv_log = <<>>
    /\ duration \in PipelineDurations
    /\ max_length = MAX_AUDIO_LENGTH
    /\ split_pc = "idle"
    /\ start_time = 0
    /\ segments_bounds = <<>>
    /\ split_segments = <<>>
    /\ chunk_files = {}
    /\ split_error = "none"
    /\ needs_split = "unset"
    /\ StitchIdle /\ WrapIdle /\ GenIdle /\ StampIdle
    /\ BatchIdle /\ ConcIdle

\* A stage method called by process_video: which one, for which chunk
\* (0 if for none), and whether it returned.
StageCall(stage, chunk, returned) ==
    [stage |-> stage, chunk |-> chunk, returned |-> returned]

\* Line 130: _extract_audio returns the path of the file ffmpeg wrote.
ExtractAudio ==
    /\ pv_pc = "extract"
    /\ pv_audio_path' = <<AudioPath>>
    /\ pv_audio_on_disk' = TRUE
    /\ pv_audio_created' = TRUE
    /\ pv_pc' = "check"
    /\ UNCHANGED <<pv_audio_segments, pv_transcribed, pv_cleanup_idx,
                   pv_remove_failed, pv_result>>
    /\ UNCHANGED <<splitVars, stitchVars, wrapVars, genVars, stampVars,
                   batchVars, concVars>>
    /\ pv_log' = Append(pv_log, StageCall("extract", 0, TRUE))

\* Lines 204-212: _extract_audio raises PipelineError and audio_path stays
\* None.  ffmpeg may have failed before or after it created its output.
ExtractAudioFails ==
    /\ pv_pc = "extract"
    /\ \E partial \in BOOLEAN :
           /\ pv_audio_on_disk' = partial
           /\ pv_audio_created' = partial
    /\ pv_result' = "PipelineError"
    /\ pv_pc' = "cleanup_audio"
    /\ UNCHANGED <<pv_audio_path, pv_audio_segments, pv_transcribed,
                   pv_cleanup_idx, pv_remove_failed>>
    /\ UNCHANGED <<splitVars, stitchVars, wrapVars, genVars, stampVars,
                   batchVars, concVars>>
    /\ pv_log' = Append(pv_log, StageCall("extract", 0, FALSE))

\* Line 134: needs_splitting(audio_path) returns.
CheckNeedsSplitting ==
    /\ pv_pc = "check"
    /\ NeedsSplitting

\* Line 134: get_audio_duration fails inside needs_splitting, whose
\* AudioSplitterError leaves process_video as it is.
CheckNeedsSplittingFails ==
    /\ pv_pc = "check"
    /\ needs_split = "unset"
    /\ pv_result' = "AudioSplitterError"
    /\ pv_pc' = "cleanup_audio"
    /\ UNCHANGED <<pv_audio_path, pv_audio_segments, pv_audio_on_disk,
                   pv_audio_created, pv_transcribed, pv_cleanup_idx,
                   pv_remove_failed>>
    /\ UNCHANGED <<splitVars, stitchVars, wrapVars, genVars, stampVars,
                   batchVars, concVars>>
    /\ UNCHANGED pv_log

\* Lines 134-145: split_audio is called, or audio_segments = [audio_path].
BranchOnSplitting ==
    /\ pv_pc = "check"
    /\ needs_split # "unset"
    /\ IF needs_split = "true"
       THEN /\ split_pc' = "start"
            /\ pv_pc' = "split"
            /\ pv_audio_segments' = pv_audio_segments
       ELSE /\ split_pc' = split_pc
            /\ pv_pc' = "transcribe"
            /\ pv_audio_segments' = pv_audio_path
    /\ UNCHANGED <<duration, max_length, start_time, segments_bounds,
                   split_segments, chunk_files, split_error, needs_split>>
    /\ UNCHANGED <<pv_audio_path, pv_audio_on_disk, pv_audio_created,
                   pv_transcribed, pv_cleanup_idx, pv_remove_failed,
                   pv_result>>
    /\ UNCHANGED <<stitchVars, wrapVars, genVars, stampVars,
                   batchVars, concVars>>
    /\ UNCHANGED pv_log

\* Lines 136-140: split_audio runs, writing its chunks into temp_dir.
SplitStageProbeFails == pv_pc = "split" /\ SplitProbeFails
SplitStageBegin      == pv_pc = "split" /\ SplitAudioBegin
SplitStagePlan       == pv_pc = "split" /\ PlanStep
SplitStageCut        == pv_pc = "split" /\ CutStep
SplitStageCutFails   == pv_pc = "split" /\ CutFails
SplitStageReturn     == pv_pc = "split" /\ SplitReturn

\* Line 136: the list split_audio returned is assigned to audio_segments.
SplitAssigned ==
    /\ pv_pc = "split"
    /\ split_pc = "returned"
    /\ pv_audio_segments' = split_segments
    /\ split_pc' = "idle"
    /\ pv_pc' = "transcribe"
    /\ UNCHANGED <<duration, max_length, start_time, segments_bounds,
                   split_segments, chunk_files, split_error, needs_split>>
    /\ UNCHANGED <<pv_audio_path, pv_audio_on_disk, pv_audio_created,
                   pv_transcribed, pv_cleanup_idx, pv_remove_failed,
                   pv_result>>
    /\ UNCHANGED <<stitchVars, wrapVars, genVars, stampVars,
                   batchVars, concVars>>
    /\ UNCHANGED pv_log

\* Line 136: split_audio raised, so nothing is assigned: audio_segments is
\* still the empty list of line 124.
SplitRaised ==
    /\ pv_pc = "split"
    /\ split_pc = "raised"
    /\ pv_result' = split_error
    /\ split_pc' = "idle"
    /\ pv_pc' = "cleanup_audio"
    /\ UNCHANGED <<duration, max_length, start_time, segments_bounds,
                   split_segments, chunk_files, split_error, needs_split>>
    /\ UNCHANGED <<pv_audio_path, pv_audio_segments, pv_audio_on_disk,
                   pv_audio_created, pv_transcribed, pv_cleanup_idx,
                   pv_remove_failed>>
    /\ UNCHANGED <<stitchVars, wrapVars, genVars, stampVars,
                   batchVars, concVars>>
    /\ UNCHANGED pv_log

\* Lines 232-251: one chunk is transcribed and merged.
TranscribeSegment ==
    /\ pv_pc = "transcribe"
    /\ pv_transcribed < Len(pv_audio_segments)
    /\ pv_transcribed' = pv_transcribed + 1
    /\ UNCHANGED <<pv_pc, pv_audio_path, pv_audio_segments, pv_audio_on_disk,
                   pv_audio_created, pv_cleanup_idx, pv_remove_failed,
                   pv_result>>
    /\ UNCHANGED <<splitVars, stitchVars, wrapVars, genVars, stampVars,
                   batchVars, concVars>>
    /\ pv_log' = Append(pv_log, StageCall("transcribe", pv_transcribed + 1, TRUE))

\* Lines 254-257: the transcription of a chunk fails: PipelineError.
TranscribeSegmentFails ==
    /\ pv_pc = "transcribe"
    /\ pv_transcribed < Len(pv_audio_segments)
    /\ pv_result' = "PipelineError"
    /\ pv_pc' = "cleanup_audio"
    /\ UNCHANGED <<pv_audio_path, pv_audio_segments, pv_audio_on_disk,
                   pv_audio_created, pv_transcribed, pv_cleanup_idx,
                   pv_remove_failed>>
    /\ UNCHANGED <<splitVars, stitchVars, wrapVars, genVars, stampVars,
                   batchVars, concVars>>
    /\ pv_log' = Append(pv_log, StageCall("transcribe", pv_transcribed + 1, FALSE))

\* Line 253: the loop has gone through every chunk; all_segments is returned.
TranscribeReturnMutant ==
    /\ pv_pc = "transcribe"
    /\ pv_pc' = "generate"
    /\ UNCHANGED <<pv_audio_path, pv_audio_segments, pv_audio_on_disk,
                   pv_audio_created, pv_transcribed, pv_cleanup_idx,
                   pv_remove_failed, pv_result, pv_log>>
    /\ UNCHANGED <<splitVars, stitchVars, wrapVars, genVars, stampVars,
                   batchVars, concVars>>
TranscribeReturn ==
    /\ pv_pc = "transcribe"
    /\ pv_transcribed = Len(pv_audio_segments)
    /\ pv_pc' = "generate"
    /\ UNCHANGED <<pv_audio_path, pv_audio_segments, pv_audio_on_disk,
                   pv_audio_created, pv_transcribed, pv_cleanup_idx,
                   pv_remove_failed, pv_result>>
    /\ UNCHANGED <<splitVars, stitchVars, wrapVars, genVars, stampVars,
                   batchVars, concVars>>
    /\ UNCHANGED pv_log

\* Lines 154-158: the subtitles are generated and their path returned.
GenerateSubtitles ==
    /\ pv_pc = "generate"
    /\ pv_result' = "returned"
    /\ pv_pc' = "cleanup_audio"
    /\ UNCHANGED <<pv_audio_path, pv_audio_segments, pv_audio_on_disk,
                   pv_audio_created, pv_transcribed, pv_cleanup_idx,
                   pv_remove_failed>>
    /\ UNCHANGED <<splitVars, stitchVars, wrapVars, genVars, stampVars,
                   batchVars, concVars>>
    /\ pv_log' = Append(pv_log, StageCall("generate", 0, TRUE))

\* Lines 279-282: generate raises: PipelineError.
GenerateSubtitlesFails ==
    /\ pv_pc = "generate"
    /\ pv_result' = "PipelineError"
    /\ pv_pc' = "cleanup_audio"
    /\ UNCHANGED <<pv_audio_path, pv_audio_segments, pv_audio_on_disk,
                   pv_audio_created, pv_transcribed, pv_cleanup_idx,
                   pv_remove_failed>>
    /\ UNCHANGED <<splitVars, stitchVars, wrapVars, genVars, stampVars,
                   batchVars, concVars>>
    /\ pv_log' = Append(pv_log, StageCall("generate", 0, FALSE))

\* Lines 162-166: the extracted audio is removed if audio_path is set and
\* the file exists; an OSError of os.remove is ignored.
CleanupAudio ==
    /\ pv_pc = "cleanup_audio"
    /\ IF pv_audio_path # <<>> /\ pv_audio_on_disk
       THEN \E removed \in BOOLEAN :
                /\ pv_audio_on_disk' = ~removed
                /\ pv_remove_failed' =
                       IF removed THEN pv_remove_failed
                       ELSE pv_remove_failed \cup {AudioPath}
       ELSE UNCHANGED <<pv_audio_on_disk, pv_remove_failed>>
    /\ pv_cleanup_idx' = 1
    /\ pv_pc' = "cleanup_segments"
    /\ UNCHANGED <<pv_audio_path, pv_audio_segments, pv_audio_created,
                   pv_transcribed, pv_result>>
    /\ UNCHANGED <<splitVars, stitchVars, wrapVars, genVars, stampVars,
                   batchVars, concVars>>
    /\ UNCHANGED pv_log

\* Lines 169-174: one iteration of the loop over audio_segments.
CleanupSegment ==
    /\ pv_pc = "cleanup_segments"
    /\ pv_cleanup_idx <= Len(pv_audio_segments)
    /\ LET segment_path == pv_audio_segments[pv_cleanup_idx] IN
       IF <<segment_path>> # pv_audio_path /\ segment_path \in chunk_files
       THEN \E removed \in BOOLEAN :
                /\ chunk_files' = IF removed
                                  THEN chunk_files \ {segment_path}
                                  ELSE chunk_files
                /\ pv_remove_failed' =
                       IF removed THEN pv_remove_failed
                       ELSE pv_remove_failed \cup {segment_path}
       ELSE UNCHANGED <<chunk_files, pv_remove_failed>>
    /\ pv_cleanup_idx' = pv_cleanup_idx + 1
    /\ UNCHANGED <<duration, max_length, split_pc, start_time,
                   segments_bounds, split_segments, split_error, needs_split>>
    /\ UNCHANGED <<pv_pc, pv_audio_path, pv_audio_segments, pv_audio_on_disk,
                   pv_audio_created, pv_transcribed, pv_result>>
    /\ UNCHANGED <<stitchVars, wrapVars, genVars, stampVars,
                   batchVars, concVars>>
    /\ UNCHANGED pv_log

\* The finally block ends: process_video returns or the exception goes on.
CleanupEnd ==
    /\ pv_pc = "cleanup_segments"
    /\ pv_cleanup_idx > Len(pv_audio_segments)
    /\ pv_pc' = "done"
    /\ UNCHANGED <<pv_audio_path, pv_audio_segments, pv_audio_on_disk,
                   pv_audio_created, pv_transcribed, pv_cleanup_idx,
                   pv_remove_failed, pv_result>>
    /\ UNCHANGED <<splitVars, stitchVars, wrapVars, genVars, stampVars,
                   batchVars, concVars>>
    /\ UNCHANGED pv_log

NextPipeline ==
    \/ ExtractAudio
    \/ ExtractAudioFails
    \/ CheckNeedsSplitting
    \/ CheckNeedsSplittingFails
    \/ BranchOnSplitting
    \/ SplitStageProbeFails
    \/ SplitStageBegin
    \/ SplitStagePlan
    \/ SplitStageCut
    \/ SplitStageCutFails
    \/ SplitStageReturn
    \/ SplitAssigned
    \/ SplitRaised
    \/ TranscribeSegment
    \/ TranscribeSegmentFails
    \/ TranscribeReturn
    \/ GenerateSubtitles
    \/ GenerateSubtitlesFails
    \/ CleanupAudio
    \/ CleanupSegment
    \/ CleanupEnd

SpecPipeline == InitPipeline /\ [][NextPipeline]_vars

(***************************************************************************)
(* Claims about process_video (under SpecPipeline)                         *)
(***************************************************************************)

\* The chunk files this run's split_audio has cut.
ChunksCut ==
    {split_segments[k] : k \in 1 .. Len(split_segments)} \ {AudioPath}

\* C20: when process_video finishes, by returning or by raising at any
\* stage (extraction, splitting, transcription, generation), every
\* temporary audio file the run created (the extracted audio, each chunk
\* the splitter cut) has been removed; a failure to delete is swallowed
\* (the file then stays) and does not change the result or the error.
C20_TempFilesRemoved ==
    pv_pc = "done" =>
        /\ pv_audio_created =>
               ~pv_audio_on_disk \/ AudioPath \in pv_remove_failed
        /\ \A path \in ChunksCut :
               path \notin chunk_files \/ path \in pv_remove_failed
        /\ pv_result \in {"returned", "PipelineError", "AudioSplitterError"}

\* C21: process_video raises PipelineError whenever a stage fails: a
\* failure of audio extraction, of the duration probe, of chunk cutting, of
\* transcription or of subtitle generation reaches the caller as
\* PipelineError and never as an exception of another type.
C21_FailuresArePipelineError ==
    (pv_pc = "done" /\ pv_result # "returned") => pv_result = "PipelineError"

(***************************************************************************)
(* Pipeline.process_batch: the loop over jobs that calls process_video.    *)
(* process_video is taken by its outcome: the path it returns, or the      *)
(* exception it raises (PipelineError, or the AudioSplitterError that      *)
(* process_video lets through).                                            *)
(***************************************************************************)

MaxJobs == 3    \* process_batch is given 0 .. MaxJobs jobs

VideoPaths    == {"a.mp4", "b.mkv"}
SubtitlePaths == {"x.srt", "y.vtt"}

\* A job dict: the keys 'input' and 'output', and 'format' unless "absent".
Jobs == [input : VideoPaths, output : SubtitlePaths, format : {"vtt", "absent"}]

JobLists == UNION {[1 .. n -> Jobs] : n \in 0 .. MaxJobs}

\* Line 94: job.get("format", "srt").
JobFormat(job) == IF job.format = "absent" THEN "srt" ELSE job.format

\* Line 100: results[input_path] = result, on a dict held as a set of
\* (key, value) pairs.
DictSetMutant(d, key, value) == d \cup {<<key, value>>}
DictSet(d, key, value) == {kv \in d : kv[1] # key} \cup {<<key, value>>}

\* Line 99: the process_video call of the current job, with its outcome.
Call(outcome, path) ==
    [idx |-> pb_idx,
     video_path |-> pb_jobs[pb_idx].input,
     output_path |-> pb_jobs[pb_idx].output,
     output_format |-> JobFormat(pb_jobs[pb_idx]),
     outcome |-> outcome,
     path |-> path]

InitBatch ==
    /\ pb_jobs \in JobLists
    /\ pb_pc = "loop"
    /\ pb_idx = 1
    /\ pb_calls = <<>>
    /\ pb_results = {}
    /\ pb_outcome = "running"
    /\ SplitIdle /\ StitchIdle /\ WrapIdle /\ GenIdle /\ StampIdle
    /\ PipeIdle /\ ConcIdle

\* Lines 91-100: one iteration whose process_video call returns.
ProcessJob ==
    /\ pb_pc = "loop"
    /\ pb_idx <= Len(pb_jobs)
    /\ \E result \in SubtitlePaths :
           /\ pb_calls' = Append(pb_calls, Call("returned", result))
           /\ pb_results' = DictSet(pb_results, pb_jobs[pb_idx].input, result)
    /\ pb_idx' = pb_idx + 1
    /\ UNCHANGED <<pb_jobs, pb_pc, pb_outcome>>
    /\ UNCHANGED <<splitVars, stitchVars, wrapVars, genVars, stampVars,
                   pipeVars, concVars>>

\* Lines 101-103: process_video raises PipelineError, which is reported
\* and raised again.
ProcessJobFails ==
    /\ pb_pc = "loop"
    /\ pb_idx <= Len(pb_jobs)
    /\ pb_calls' = Append(pb_calls, Call("PipelineError", "none"))
    /\ pb_outcome' = "PipelineError"
    /\ pb_pc' = "raised"
    /\ UNCHANGED <<pb_jobs, pb_idx, pb_results>>
    /\ UNCHANGED <<splitVars, stitchVars, wrapVars, genVars, stampVars,
                   pipeVars, concVars>>

\* Lines 98-101: process_video raises an exception that the except clause
\* does not name; it leaves process_batch at once.
ProcessJobEscapes ==
    /\ pb_pc = "loop"
    /\ pb_idx <= Len(pb_jobs)
    /\ pb_calls' = Append(pb_calls, Call("AudioSplitterError", "none"))
    /\ pb_outcome' = "AudioSplitterError"
    /\ pb_pc' = "raised"
    /\ UNCHANGED <<pb_jobs, pb_idx, pb_results>>
    /\ UNCHANGED <<splitVars, stitchVars, wrapVars, genVars, stampVars,
                   pipeVars, concVars>>

\* Line 105: return results.
BatchReturn ==
    /\ pb_pc = "loop"
    /\ pb_idx > Len(pb_jobs)
    /\ pb_outcome' = "returned"
    /\ pb_pc' = "returned"
    /\ UNCHANGED <<pb_jobs, pb_idx, pb_calls, pb_results>>
    /\ UNCHANGED <<splitVars, stitchVars, wrapVars, genVars, stampVars,
                   pipeVars, concVars>>

NextBatch ==
    \/ ProcessJob
    \/ ProcessJobFails
    \/ ProcessJobEscapes
    \/ BatchReturn

SpecBatch == InitBatch /\ [][NextBatch]_vars

(***************************************************************************)
(* Claims about process_batch (under SpecBatch)                            *)
(***************************************************************************)

\* The calls made so far are those of the first jobs of the list, one per
\* job, in list order, each with the job's paths and format.
CallsInListOrder ==
    /\ Len(pb_calls) <= Len(pb_jobs)
    /\ \A k \in 1 .. Len(pb_calls) :
           /\ pb_calls[k].idx = k
           /\ pb_calls[k].video_path = pb_jobs[k].input
           /\ pb_calls[k].output_path = pb_jobs[k].output
           /\ pb_calls[k].output_format = JobFormat(pb_jobs[k])
           /\ k < Len(pb_calls) => pb_calls[k].outcome = "returned"

\* The last job of the list that has this input path.
LastJobOf(input) ==
    CHOOSE k \in 1 .. Len(pb_jobs) :
        /\ pb_jobs[k].input = input
        /\ \A j \in k + 1 .. Len(pb_jobs) : pb_jobs[j].input # input

JobInputs == {pb_jobs[k].input : k \in 1 .. Len(pb_jobs)}

\* C22 as stated: the jobs are processed one after the other in list
\* order; when every job succeeds the returned mapping has one entry per
\* job, from the job's input path to the path process_video returned for
\* it; when a job fails with PipelineError the error is raised again and
\* no later job is started.
C22_OneEntryPerJob ==
    /\ CallsInListOrder
    /\ pb_pc = "returned" =>
           /\ Len(pb_calls) = Len(pb_jobs)
           /\ Cardinality(pb_results) = Len(pb_jobs)
           /\ \A k \in 1 .. Len(pb_jobs) :
                  <<pb_jobs[k].input, pb_calls[k].path>> \in pb_results
    /\ pb_pc = "raised" =>
           /\ Last(pb_calls).outcome = pb_outcome
           /\ pb_outcome # "returned"

\* C22, amended: the jobs are processed one after the other in list order;
\* when every job succeeds the returned mapping has one entry per distinct
\* input path, from that path to the path process_video returned for the
\* last job with that input (so one entry per job when the input paths
\* differ); when a job fails the error is raised again and no later job is
\* started.
C22_OneEntryPerInput ==
    /\ CallsInListOrder
    /\ pb_pc = "returned" =>
           /\ Len(pb_calls) = Len(pb_jobs)
           /\ \A k \in 1 .. Len(pb_calls) : pb_calls[k].outcome = "returned"
           /\ pb_results =
                  {<<input, pb_calls[LastJobOf(input)].path>> :
                       input \in JobInputs}
    /\ pb_pc = "raised" =>
           /\ Last(pb_calls).outcome = pb_outcome
           /\ pb_outcome # "returned"
           /\ Last(pb_calls).idx = pb_idx

\* Three jobs have succeeded, two of them for the same video with
\* different returned paths.
C22_Witness ==
    /\ pb_pc = "returned"
    /\ Len(pb_jobs) = 3
    /\ pb_jobs[1].input = pb_jobs[3].input
    /\ pb_jobs[1].input # pb_jobs[2].input
    /\ pb_calls[1].path # pb_calls[3].path
    /\ Cardinality(pb_results) = 2

(***************************************************************************)
(* Two process_video runs at the same time, with the same temp_dir (the    *)
(* default of every Pipeline is tempfile.gettempdir()).  Each run is the   *)
(* code of process_video; what is followed here is which run's data each   *)
(* file of temp_dir holds, and who reads, overwrites and removes it.       *)
(***************************************************************************)

Runs  == {1, 2}
Stems == {"v", "w"}      \* Path(video_path).stem of the two videos
ConcChunks == 2          \* chunks that split_audio cuts from a long audio

\* _extract_audio, line 196: temp_dir / audio_<stem>.wav.
ExtractedPath(stem) == [name |-> stem, idx |-> 0]

\* The files of temp_dir; split_audio names its chunks segment_<idx>.wav
\* whatever the audio (audio_splitter.py, line 93).
TempPaths ==
    {ExtractedPath(s) : s \in Stems} \cup {SegmentPath(i) : i \in 1 .. ConcChunks}

\* cr_fs[path] is 0 when the file does not exist.
NoFile == 0

\* A run touches a file that holds the data of another run.
Foreign(r, path) == cr_fs[path] \notin {NoFile, r}
Touch(kind, r, path) ==
    IF Foreign(r, path)
    THEN {[kind |-> kind, by |-> r, of |-> cr_fs[path], path |-> path]}
    ELSE {}

InitConc ==
    /\ cr_stem \in [Runs -> Stems]
    /\ cr_long \in [Runs -> BOOLEAN]
    /\ cr_pc = [r \in Runs |-> "extract"]
    /\ cr_audio_path = [r \in Runs |-> <<>>]
    /\ cr_segments = [r \in Runs |-> <<>>]
    /\ cr_cut = [r \in Runs |-> 0]
    /\ cr_sent = [r \in Runs |-> 0]
    /\ cr_cleanup_idx = [r \in Runs |-> 0]
    /\ cr_fs = [path \in TempPaths |-> NoFile]
    /\ cr_events = {}
    /\ SplitIdle /\ StitchIdle /\ WrapIdle /\ GenIdle /\ StampIdle
    /\ PipeIdle /\ BatchIdle

\* Line 130: ffmpeg writes audio_<stem>.wav.  It is run without -y: when
\* the file is there already it asks, and writes over it only if told to.
CrExtract(r) ==
    LET path == ExtractedPath(cr_stem[r]) IN
    /\ cr_pc[r] = "extract"
    /\ cr_events' = cr_events \cup Touch("overwrite", r, path)
    /\ cr_fs' = [cr_fs EXCEPT ![path] = r]
    /\ cr_audio_path' = [cr_audio_path EXCEPT ![r] = <<path>>]
    /\ cr_pc' = [cr_pc EXCEPT ![r] = "check"]
    /\ UNCHANGED <<cr_stem, cr_long, cr_segments, cr_cut, cr_sent,
                   cr_cleanup_idx>>
    /\ UNCHANGED <<splitVars, stitchVars, wrapVars, genVars, stampVars,
                   pipeVars, batchVars>>

\* Lines 204-212: extraction fails (ffmpeg exits non-zero, as it does when
\* it is not allowed to write over the file); audio_path stays None.
CrExtractFails(r) ==
    /\ cr_pc[r] = "extract"
    /\ cr_pc' = [cr_pc EXCEPT ![r] = "cleanup_audio"]
    /\ UNCHANGED <<cr_stem, cr_long, cr_audio_path, cr_segments, cr_cut,
                   cr_sent, cr_cleanup_idx, cr_fs, cr_events>>
    /\ UNCHANGED <<splitVars, stitchVars, wrapVars, genVars, stampVars,
                   pipeVars, batchVars>>

\* Lines 134-145: needs_splitting probes the file at audio_path; the
\* duration it finds is that of the data the file holds now.
CrCheck(r) ==
    LET path == cr_audio_path[r][1] IN
    /\ cr_pc[r] = "check"
    /\ IF cr_fs[path] = NoFile
       THEN /\ cr_pc' = [cr_pc EXCEPT ![r] = "cleanup_audio"]
            /\ UNCHANGED <<cr_segments, cr_events>>
       ELSE /\ cr_events' = cr_events \cup Touch("read", r, path)
            /\ IF cr_long[cr_fs[path]]
               THEN /\ cr_pc' = [cr_pc EXCEPT ![r] = "split"]
                    /\ UNCHANGED cr_segments
               ELSE /\ cr_pc' = [cr_pc EXCEPT ![r] = "transcribe"]
                    /\ cr_segments' = [cr_segments EXCEPT ![r] = <<path>>]
    /\ UNCHANGED <<cr_stem, cr_long, cr_audio_path, cr_cut, cr_sent,
                   cr_cleanup_idx, cr_fs>>
    /\ UNCHANGED <<splitVars, stitchVars, wrapVars, genVars, stampVars,
                   pipeVars, batchVars>>

\* audio_splitter.py, lines 92-131: ffmpeg -y cuts the next chunk from
\* audio_path into segment_<idx>.wav, over whatever is there.
CrCut(r) ==
    LET path == cr_audio_path[r][1]
        output_file == SegmentPath(cr_cut[r] + 1) IN
    /\ cr_pc[r] = "split"
    /\ cr_cut[r] < ConcChunks
    /\ cr_fs[path] # NoFile
    /\ cr_events' = cr_events \cup Touch("read", r, path)
                              \cup Touch("overwrite", r, output_file)
    /\ cr_fs' = [cr_fs EXCEPT ![output_file] = r]
    /\ cr_cut' = [cr_cut EXCEPT ![r] = @ + 1]
    /\ UNCHANGED <<cr_stem, cr_long, cr_pc, cr_audio_path, cr_segments,
                   cr_sent, cr_cleanup_idx>>
    /\ UNCHANGED <<splitVars, stitchVars, wrapVars, genVars, stampVars,
                   pipeVars, batchVars>>

\* audio_splitter.py, lines 123-129 (ffmpeg fails, as it does when the
\* audio is gone): AudioSplitterError, and audio_segments stays [].
CrCutFails(r) ==
    /\ cr_pc[r] = "split"
    /\ cr_cut[r] < ConcChunks
    /\ cr_pc' = [cr_pc EXCEPT ![r] = "cleanup_audio"]
    /\ UNCHANGED <<cr_stem, cr_long, cr_audio_path, cr_segments, cr_cut,
                   cr_sent, cr_cleanup_idx, cr_fs, cr_events>>
    /\ UNCHANGED <<splitVars, stitchVars, wrapVars, genVars, stampVars,
                   pipeVars, batchVars>>

\* Line 136: audio_segments = the chunk paths split_audio returns.
CrSplitReturn(r) ==
    /\ cr_pc[r] = "split"
    /\ cr_cut[r] = ConcChunks
    /\ cr_segments' = [cr_segments EXCEPT
                           ![r] = [i \in 1 .. ConcChunks |-> SegmentPath(i)]]
    /\ cr_pc' = [cr_pc EXCEPT ![r] = "transcribe"]
    /\ UNCHANGED <<cr_stem, cr_long, cr_audio_path, cr_cut, cr_sent,
                   cr_cleanup_idx, cr_fs, cr_events>>
    /\ UNCHANGED <<splitVars, stitchVars, wrapVars, genVars, stampVars,
                   pipeVars, batchVars>>

\* Lines 232-251: the next chunk file is read and sent to the transcriber.
CrTranscribe(r) ==
    LET segment_path == cr_segments[r][cr_sent[r] + 1] IN
    /\ cr_pc[r] = "transcribe"
    /\ cr_sent[r] < Len(cr_segments[r])
    /\ cr_fs[segment_path] # NoFile
    /\ cr_events' = cr_events \cup Touch("read", r, segment_path)
    /\ cr_sent' = [cr_sent EXCEPT ![r] = @ + 1]
    /\ UNCHANGED <<cr_stem, cr_long, cr_pc, cr_audio_path, cr_segments,
                   cr_cut, cr_cleanup_idx, cr_fs>>
    /\ UNCHANGED <<splitVars, stitchVars, wrapVars, genVars, stampVars,
                   pipeVars, batchVars>>

\* Lines 254-257: the transcription of a chunk fails (as it does when the
\* chunk file is gone): PipelineError.
CrTranscribeFails(r) ==
    /\ cr_pc[r] = "transcribe"
    /\ cr_sent[r] < Len(cr_segments[r])
    /\ cr_pc' = [cr_pc EXCEPT ![r] = "cleanup_audio"]
    /\ UNCHANGED <<cr_stem, cr_long, cr_audio_path, cr_segments, cr_cut,
                   cr_sent, cr_cleanup_idx, cr_fs, cr_events>>
    /\ UNCHANGED <<splitVars, stitchVars, wrapVars, genVars, stampVars,
                   pipeVars, batchVars>>

\* Lines 154-158: the subtitles are generated, or generation raises; the
\* finally block follows in both cases.
CrGenerate(r) ==
    /\ cr_pc[r] = "transcribe"
    /\ cr_sent[r] = Len(cr_segments[r])
    /\ cr_pc' = [cr_pc EXCEPT ![r] = "cleanup_audio"]
    /\ UNCHANGED <<cr_stem, cr_long, cr_audio_path, cr_segments, cr_cut,
                   cr_sent, cr_cleanup_idx, cr_fs, cr_events>>
    /\ UNCHANGED <<splitVars, stitchVars, wrapVars, genVars, stampVars,
                   pipeVars, batchVars>>

\* Lines 162-166: os.remove(audio_path) if it is set and the file exists.
CrCleanupAudio(r) ==
    /\ cr_pc[r] = "cleanup_audio"
    /\ IF cr_audio_path[r] # <<>> /\ cr_fs[cr_audio_path[r][1]] # NoFile
       THEN /\ cr_events' = cr_events \cup Touch("delete", r, cr_audio_path[r][1])
            /\ cr_fs' = [cr_fs EXCEPT ![cr_audio_path[r][1]] = NoFile]
       ELSE UNCHANGED <<cr_fs, cr_events>>
    /\ cr_cleanup_idx' = [cr_cleanup_idx EXCEPT ![r] = 1]
    /\ cr_pc' = [cr_pc EXCEPT ![r] = "cleanup_segments"]
    /\ UNCHANGED <<cr_stem, cr_long, cr_audio_path, cr_segments, cr_cut,
                   cr_sent>>
    /\ UNCHANGED <<splitVars, stitchVars, wrapVars, genVars, stampVars,
                   pipeVars, batchVars>>

\* Lines 169-174: one iteration of the loop over audio_segments.
CrCleanupSegment(r) ==
    /\ cr_pc[r] = "cleanup_segments"
    /\ cr_cleanup_idx[r] <= Len(cr_segments[r])
    /\ LET segment_path == cr_segments[r][cr_cleanup_idx[r]] IN
       IF <<segment_path>> # cr_audio_path[r] /\ cr_fs[segment_path] # NoFile
       THEN /\ cr_events' = cr_events \cup Touch("delete", r, segment_path)
            /\ cr_fs' = [cr_fs EXCEPT ![segment_path] = NoFile]
       ELSE UNCHANGED <<cr_fs, cr_events>>
    /\ cr_cleanup_idx' = [cr_cleanup_idx EXCEPT ![r] = @ + 1]
    /\ UNCHANGED <<cr_stem, cr_long, cr_pc, cr_audio_path, cr_segments,
                   cr_cut, cr_sent>>
    /\ UNCHANGED <<splitVars, stitchVars, wrapVars, genVars, stampVars,
                   pipeVars, batchVars>>

\* The finally block ends.
CrCleanupEnd(r) ==
    /\ cr_pc[r] = "cleanup_segments"
    /\ cr_cleanup_idx[r] > Len(cr_segments[r])
    /\ cr_pc' = [cr_pc EXCEPT ![r] = "done"]
    /\ UNCHANGED <<cr_stem, cr_long, cr_audio_path, cr_segments, cr_cut,
                   cr_sent, cr_cleanup_idx, cr_fs, cr_events>>
    /\ UNCHANGED <<splitVars, stitchVars, wrapVars, genVars, stampVars,
                   pipeVars, batchVars>>

NextConc ==
    \E r \in Runs :
        \/ CrExtract(r)
        \/ CrExtractFails(r)
        \/ CrCheck(r)
        \/ CrCut(r)
        \/ CrCutFails(r)
        \/ CrSplitReturn(r)
        \/ CrTranscribe(r)
        \/ CrTranscribeFails(r)
        \/ CrGenerate(r)
        \/ CrCleanupAudio(r)
        \/ CrCleanupSegment(r)
        \/ CrCleanupEnd(r)

SpecConc == InitConc /\ [][NextConc]_vars

(***************************************************************************)
(* Claims about concurrent runs (under SpecConc)                           *)
(***************************************************************************)

\* C24: two pipeline runs that execute at the same time share no mutable
\* state: the extracted audio file and the chunk files of one run are
\* never read, overwritten or deleted by the other run, even when both
\* runs use the same temp directory.
C24_RunsShareNothing == cr_events = {}

\* The stage calls logged so far, by stage.
LoggedCalls(stage) ==
    {k \in 1 .. Len(pv_log) : pv_log[k].stage = stage}
Transcribed(chunk) ==
    \E k \in LoggedCalls("transcribe") :
        pv_log[k].chunk = chunk /\ pv_log[k].returned

\* The place of a call in the order extraction, transcription of chunk
\* 1, 2, ..., generation.
StageRank(call) ==
    IF call.stage = "extract" THEN 0
    ELSE IF call.stage = "transcribe" THEN call.chunk
    ELSE Len(pv_audio_segments) + 1

\* split_audio has cut every window it planned and has returned.
SplitCompleted ==
    /\ split_error = "none"
    /\ split_pc = "idle"
    /\ Len(segments_bounds) >= 2
    /\ Len(split_segments) = Len(segments_bounds)
    /\ pv_audio_segments = split_segments

\* C26: within one process_video run the stages execute strictly in order
\* (extraction, split decision and chunk cutting, transcription of chunks
\* 1..n in window order, generation), each starting only after the one
\* before has completed: nothing is transcribed if extraction or splitting
\* failed, chunk i+1 is transcribed only after chunk i was merged, and
\* generate is called only after every chunk has been transcribed.
C26_StagesInOrder ==
    /\ \A a, b \in 1 .. Len(pv_log) :
           a < b => /\ pv_log[a].returned
                    /\ StageRank(pv_log[a]) < StageRank(pv_log[b])
    /\ (needs_split # "unset" \/ split_pc # "idle" \/ chunk_files # {}) =>
           /\ pv_log # <<>>
           /\ pv_log[1] = StageCall("extract", 0, TRUE)
    /\ LoggedCalls("transcribe") # {} =>
           /\ pv_log[1] = StageCall("extract", 0, TRUE)
           /\ pv_result # "AudioSplitterError"
           /\ IF needs_split = "true" THEN SplitCompleted
              ELSE needs_split = "false" /\ pv_audio_segments = pv_audio_path
    /\ \A k \in LoggedCalls("transcribe") :
           /\ pv_log[k].chunk \in 1 .. Len(pv_audio_segments)
           /\ \A i \in 1 .. pv_log[k].chunk - 1 : Transcribed(i)
    /\ LoggedCalls("generate") # {} =>
           /\ pv_audio_segments # <<>>
           /\ \A i \in 1 .. Len(pv_audio_segments) : Transcribed(i)
    /\ pv_result \in {"PipelineError", "AudioSplitterError"} =>
           \/ pv_log = <<>>
           \/ ~Last(pv_log).returned
           \/ /\ pv_result = "AudioSplitterError"
              /\ LoggedCalls("transcribe") = {}

\* A run that cut four chunks, transcribed them all and generated the
\* subtitles.
C26_Witness ==
    /\ pv_pc = "done"
    /\ pv_result = "returned"
    /\ Len(pv_audio_segments) = 4
    /\ Len(pv_log) = 6
    /\ pv_log[5] = StageCall("transcribe", 4, TRUE)
    /\ pv_log[6] = StageCall("generate", 0, TRUE)

=============================================================================
